---- MODULE Spec2Model ----
(***************************************************************************)
(* Region identification and aggregation of the Swedish region map tool:   *)
(* utils/data_utils.process_data, utils/trafikverket_regions (labelling    *)
(* and boundary merge), utils/region_groups and the grouping UI of         *)
(* ui/custom_groups, with the reference tables of config.py.               *)
(*                                                                         *)
(* A Python str is a sequence of one-character strings, so that padding,   *)
(* lower-casing, substring replacement and sorting are computed, not       *)
(* assumed.  A DataFrame is a sequence of rows (records); a missing label  *)
(* is the empty option <<>> and a present one <<label>>; a float is an     *)
(* exact fraction or NaN.                                                  *)
(***************************************************************************)
EXTENDS Integers, Sequences, FiniteSets, TLC

VARIABLES
  df,                 \* process_data's argument: rows [region, value] of raw cells
  pc,                 \* "start" before the call, "done" after it returned
  region_name,        \* processed_df['region_name'] as computed at data_utils.py:85
  lan_data,           \* returned county table
  nuts2_data,         \* returned NUTS-2 table
  trafikverket_data,  \* returned transport-authority table
  messages,           \* st.warning / st.error calls made by process_data
  data,               \* create_custom_region_group's df argument
  custom_groups,      \* its custom_groups argument: (name, regions) items in dict order;
                      \* in the grouping UI, st.session_state.custom_groups
  grouped_df,         \* its result
  available_regions,  \* get_unused_regions' result (ui/custom_groups.py:30)
  form_key,           \* st.session_state.form_key
  runs,               \* number of reruns of the script asked for with st.rerun()
  gdf,                \* create_trafikverket_regions' argument: [crs, rows [name, geometry]];
                      \* for the map functions, their gdf argument
  trafikverket_gdf,   \* its result: [crs, rows [name, id, geometry]]
  session,            \* st.session_state of the map application
  shown,              \* what the last call or script run displayed
  geojson,            \* the features of the NUTS-2 GeoJSON source
  nuts2_gdf           \* the NUTS-2 frame _load_base_geojson returns

vars ==
  <<df, pc, region_name, lan_data, nuts2_data, trafikverket_data, messages,
    data, custom_groups, grouped_df, available_regions, form_key, runs,
    gdf, trafikverket_gdf, session, shown, geojson, nuts2_gdf>>

(* the state of the grouping UI besides custom_groups and messages *)
ui_vars ==
  <<available_regions, form_key, runs>>

(* the argument and the result of the boundary merge *)
geo_vars ==
  <<gdf, trafikverket_gdf>>

(* the session state and the display of the map application *)
view_vars ==
  <<session, shown>>

(* the source and the result of loading the NUTS-2 boundaries *)
load_vars ==
  <<geojson, nuts2_gdf>>

(* Largest number of rows of an input table. *)
MaxRows == 3

(* Largest number of groups of a custom grouping. *)
MaxGroups == 2

(* Names up to this length are tried in every mix of upper and lower case. *)
MaxVariantLen == 6

(* Largest number of reruns of the grouping UI (handlers that end in st.rerun()). *)
MaxRuns == 2

(* the greatest number of features of a NUTS-2 source *)
MaxFeatures == 2


(* ------------------------------ Python str ------------------------------ *)

(* The characters that occur, in ascending code-point order. *)
CODEPOINTS ==
  <<" ", "-",
    "0","1","2","3","4","5","6","7","8","9",
    "A","B","C","D","E","F","G","H","I","J","K","L","M",
    "N","O","P","Q","R","S","T","U","V","W","X","Y","Z",
    "a","b","c","d","e","f","g","h","i","j","k","l","m",
    "n","o","p","q","r","s","t","u","v","w","x","y","z",
    "Ä","Å","Ö","ä","å","ö">>

UPPERCASE ==
  <<"A","B","C","D","E","F","G","H","I","J","K","L","M",
    "N","O","P","Q","R","S","T","U","V","W","X","Y","Z","Ä","Å","Ö">>

LOWERCASE ==
  <<"a","b","c","d","e","f","g","h","i","j","k","l","m",
    "n","o","p","q","r","s","t","u","v","w","x","y","z","ä","å","ö">>

DIGITS ==
  <<"0","1","2","3","4","5","6","7","8","9">>

IndexOf(seq, c) ==
  CHOOSE i \in 1..Len(seq) : seq[i] = c

Contains(seq, c) ==
  \E i \in 1..Len(seq) : seq[i] = c

(* s.index(c): the first position of c *)
IndexOfFirst(seq, c) ==
  CHOOSE i \in 1..Len(seq) : seq[i] = c /\ \A j \in 1..(i - 1) : seq[j] # c

(* ord(c), up to an order-preserving renumbering *)
ord(c) ==
  IndexOf(CODEPOINTS, c)

(* a < b for two str: lexicographic by code point *)
StrLess(a, b) ==
  \E k \in 1..(Len(b)) :
    /\ k <= Len(a) + 1
    /\ \A j \in 1..(k-1) : a[j] = b[j]
    /\ (k = Len(a) + 1 \/ ord(a[k]) < ord(b[k]))

lower_char(c) ==
  IF Contains(UPPERCASE, c) THEN LOWERCASE[IndexOf(UPPERCASE, c)] ELSE c

upper_char(c) ==
  IF Contains(LOWERCASE, c) THEN UPPERCASE[IndexOf(LOWERCASE, c)] ELSE c

(* str.lower() *)
lower(s) ==
  [i \in 1..Len(s) |-> lower_char(s[i])]

(* str.upper() *)
upper(s) ==
  [i \in 1..Len(s) |-> upper_char(s[i])]

(* str.isdigit(): non-empty and every character a digit *)
isdigit(s) ==
  Len(s) > 0 /\ \A i \in 1..Len(s) : Contains(DIGITS, s[i])

(* str(n) of a non-negative int *)
RECURSIVE str_int(_)
str_int(n) ==
  IF n < 10 THEN <<DIGITS[n + 1]>>
  ELSE str_int(n \div 10) \o <<DIGITS[(n % 10) + 1]>>

(* the int written by a non-empty digit string *)
RECURSIVE int_of_digits(_)
int_of_digits(s) ==
  IF Len(s) = 0 THEN 0
  ELSE 10 * int_of_digits(SubSeq(s, 1, Len(s) - 1)) + (IndexOf(DIGITS, s[Len(s)]) - 1)

(* s.replace(old, '') : every non-overlapping occurrence, left to right *)
RECURSIVE remove_all(_, _)
remove_all(s, old) ==
  IF Len(s) < Len(old) THEN s
  ELSE IF SubSeq(s, 1, Len(old)) = old
       THEN remove_all(SubSeq(s, Len(old) + 1, Len(s)), old)
       ELSE <<s[1]>> \o remove_all(Tail(s), old)

(* old in s *)
has_substring(s, old) ==
  \E i \in 1..(Len(s) - Len(old) + 1) : SubSeq(s, i, i + Len(old) - 1) = old

(* ', '.join(parts) *)
RECURSIVE join(_)
join(parts) ==
  IF Len(parts) = 0 THEN <<>>
  ELSE IF Len(parts) = 1 THEN parts[1]
  ELSE parts[1] \o <<",", " ">> \o join(Tail(parts))

(* config.LAN_MAPPING: the dict literal as its (code, name) items in source order *)
LAN_MAPPING ==
  <<
    << <<"0","1">>,
       <<"S","t","o","c","k","h","o","l","m">> >>,  \* '01': 'Stockholm'
    << <<"0","3">>,
       <<"U","p","p","s","a","l","a">> >>,  \* '03': 'Uppsala'
    << <<"0","4">>,
       <<"S","ö","d","e","r","m","a","n","l","a","n","d">> >>,  \* '04': 'Södermanland'
    << <<"0","5">>,
       <<"Ö","s","t","e","r","g","ö","t","l","a","n","d">> >>,  \* '05': 'Östergötland'
    << <<"0","6">>,
       <<"J","ö","n","k","ö","p","i","n","g">> >>,  \* '06': 'Jönköping'
    << <<"0","7">>,
       <<"K","r","o","n","o","b","e","r","g">> >>,  \* '07': 'Kronoberg'
    << <<"0","8">>,
       <<"K","a","l","m","a","r">> >>,  \* '08': 'Kalmar'
    << <<"0","9">>,
       <<"G","o","t","l","a","n","d">> >>,  \* '09': 'Gotland'
    << <<"1","0">>,
       <<"B","l","e","k","i","n","g","e">> >>,  \* '10': 'Blekinge'
    << <<"1","2">>,
       <<"S","k","å","n","e">> >>,  \* '12': 'Skåne'
    << <<"1","3">>,
       <<"H","a","l","l","a","n","d">> >>,  \* '13': 'Halland'
    << <<"1","4">>,
       <<"V","ä","s","t","r","a"," ","G","ö","t","a","l","a","n","d">> >>,  \* '14': 'Västra Götaland'
    << <<"1","7">>,
       <<"V","ä","r","m","l","a","n","d">> >>,  \* '17': 'Värmland'
    << <<"1","8">>,
       <<"Ö","r","e","b","r","o">> >>,  \* '18': 'Örebro'
    << <<"1","9">>,
       <<"V","ä","s","t","m","a","n","l","a","n","d">> >>,  \* '19': 'Västmanland'
    << <<"2","0">>,
       <<"D","a","l","a","r","n","a">> >>,  \* '20': 'Dalarna'
    << <<"2","1">>,
       <<"G","ä","v","l","e","b","o","r","g">> >>,  \* '21': 'Gävleborg'
    << <<"2","2">>,
       <<"V","ä","s","t","e","r","n","o","r","r","l","a","n","d">> >>,  \* '22': 'Västernorrland'
    << <<"2","3">>,
       <<"J","ä","m","t","l","a","n","d">> >>,  \* '23': 'Jämtland'
    << <<"2","4">>,
       <<"V","ä","s","t","e","r","b","o","t","t","e","n">> >>,  \* '24': 'Västerbotten'
    << <<"2","5">>,
       <<"N","o","r","r","b","o","t","t","e","n">> >>  \* '25': 'Norrbotten'
  >>

(* config.NUTS2_MAPPING: (county name, NUTS-2 label) items in source order *)
NUTS2_MAPPING ==
  <<
    << <<"S","t","o","c","k","h","o","l","m">>,
       <<"S","E","1","1"," ","S","t","o","c","k","h","o","l","m">> >>,  \* 'Stockholm': 'SE11 Stockholm'
    << <<"U","p","p","s","a","l","a">>,
       <<"S","E","1","2"," ","Ö","s","t","r","a"," ","M","e","l","l","a","n","s","v","e","r","i","g","e">> >>,  \* 'Uppsala': 'SE12 Östra Mellansverige'
    << <<"S","ö","d","e","r","m","a","n","l","a","n","d">>,
       <<"S","E","1","2"," ","Ö","s","t","r","a"," ","M","e","l","l","a","n","s","v","e","r","i","g","e">> >>,  \* 'Södermanland': 'SE12 Östra Mellansverige'
    << <<"Ö","s","t","e","r","g","ö","t","l","a","n","d">>,
       <<"S","E","1","2"," ","Ö","s","t","r","a"," ","M","e","l","l","a","n","s","v","e","r","i","g","e">> >>,  \* 'Östergötland': 'SE12 Östra Mellansverige'
    << <<"Ö","r","e","b","r","o">>,
       <<"S","E","1","2"," ","Ö","s","t","r","a"," ","M","e","l","l","a","n","s","v","e","r","i","g","e">> >>,  \* 'Örebro': 'SE12 Östra Mellansverige'
    << <<"V","ä","s","t","m","a","n","l","a","n","d">>,
       <<"S","E","1","2"," ","Ö","s","t","r","a"," ","M","e","l","l","a","n","s","v","e","r","i","g","e">> >>,  \* 'Västmanland': 'SE12 Östra Mellansverige'
    << <<"J","ö","n","k","ö","p","i","n","g">>,
       <<"S","E","2","1"," ","S","m","å","l","a","n","d"," ","m","e","d"," ","ö","a","r","n","a">> >>,  \* 'Jönköping': 'SE21 Småland med öarna'
    << <<"K","r","o","n","o","b","e","r","g">>,
       <<"S","E","2","1"," ","S","m","å","l","a","n","d"," ","m","e","d"," ","ö","a","r","n","a">> >>,  \* 'Kronoberg': 'SE21 Småland med öarna'
    << <<"K","a","l","m","a","r">>,
       <<"S","E","2","1"," ","S","m","å","l","a","n","d"," ","m","e","d"," ","ö","a","r","n","a">> >>,  \* 'Kalmar': 'SE21 Småland med öarna'
    << <<"G","o","t","l","a","n","d">>,
       <<"S","E","2","1"," ","S","m","å","l","a","n","d"," ","m","e","d"," ","ö","a","r","n","a">> >>,  \* 'Gotland': 'SE21 Småland med öarna'
    << <<"B","l","e","k","i","n","g","e">>,
       <<"S","E","2","2"," ","S","y","d","s","v","e","r","i","g","e">> >>,  \* 'Blekinge': 'SE22 Sydsverige'
    << <<"S","k","å","n","e">>,
       <<"S","E","2","2"," ","S","y","d","s","v","e","r","i","g","e">> >>,  \* 'Skåne': 'SE22 Sydsverige'
    << <<"H","a","l","l","a","n","d">>,
       <<"S","E","2","3"," ","V","ä","s","t","s","v","e","r","i","g","e">> >>,  \* 'Halland': 'SE23 Västsverige'
    << <<"V","ä","s","t","r","a"," ","G","ö","t","a","l","a","n","d">>,
       <<"S","E","2","3"," ","V","ä","s","t","s","v","e","r","i","g","e">> >>,  \* 'Västra Götaland': 'SE23 Västsverige'
    << <<"V","ä","r","m","l","a","n","d">>,
       <<"S","E","3","1"," ","N","o","r","r","a"," ","M","e","l","l","a","n","s","v","e","r","i","g","e">> >>,  \* 'Värmland': 'SE31 Norra Mellansverige'
    << <<"D","a","l","a","r","n","a">>,
       <<"S","E","3","1"," ","N","o","r","r","a"," ","M","e","l","l","a","n","s","v","e","r","i","g","e">> >>,  \* 'Dalarna': 'SE31 Norra Mellansverige'
    << <<"G","ä","v","l","e","b","o","r","g">>,
       <<"S","E","3","1"," ","N","o","r","r","a"," ","M","e","l","l","a","n","s","v","e","r","i","g","e">> >>,  \* 'Gävleborg': 'SE31 Norra Mellansverige'
    << <<"V","ä","s","t","e","r","n","o","r","r","l","a","n","d">>,
       <<"S","E","3","2"," ","M","e","l","l","e","r","s","t","a"," ","N","o","r","r","l","a","n","d">> >>,  \* 'Västernorrland': 'SE32 Mellersta Norrland'
    << <<"J","ä","m","t","l","a","n","d">>,
       <<"S","E","3","2"," ","M","e","l","l","e","r","s","t","a"," ","N","o","r","r","l","a","n","d">> >>,  \* 'Jämtland': 'SE32 Mellersta Norrland'
    << <<"V","ä","s","t","e","r","b","o","t","t","e","n">>,
       <<"S","E","3","3"," ","Ö","v","r","e"," ","N","o","r","r","l","a","n","d">> >>,  \* 'Västerbotten': 'SE33 Övre Norrland'
    << <<"N","o","r","r","b","o","t","t","e","n">>,
       <<"S","E","3","3"," ","Ö","v","r","e"," ","N","o","r","r","l","a","n","d">> >>  \* 'Norrbotten': 'SE33 Övre Norrland'
  >>

(* TRAFIKVERKET_REGIONS with the item of Gotland left out *)
TRAFIKVERKET_REGIONS_missing ==
  <<
    << <<"S","k","å","n","e">>,
       <<"S","y","d">> >>,  \* 'Skåne': 'Syd'
    << <<"K","r","o","n","o","b","e","r","g">>,
       <<"S","y","d">> >>,  \* 'Kronoberg': 'Syd'
    << <<"B","l","e","k","i","n","g","e">>,
       <<"S","y","d">> >>,  \* 'Blekinge': 'Syd'
    << <<"V","ä","s","t","e","r","n","o","r","r","l","a","n","d">>,
       <<"N","o","r","r">> >>,  \* 'Västernorrland': 'Norr'
    << <<"J","ä","m","t","l","a","n","d">>,
       <<"N","o","r","r">> >>,  \* 'Jämtland': 'Norr'
    << <<"V","ä","s","t","e","r","b","o","t","t","e","n">>,
       <<"N","o","r","r">> >>,  \* 'Västerbotten': 'Norr'
    << <<"N","o","r","r","b","o","t","t","e","n">>,
       <<"N","o","r","r">> >>,  \* 'Norrbotten': 'Norr'
    << <<"U","p","p","s","a","l","a">>,
       <<"M","i","t","t">> >>,  \* 'Uppsala': 'Mitt'
    << <<"S","ö","d","e","r","m","a","n","l","a","n","d">>,
       <<"M","i","t","t">> >>,  \* 'Södermanland': 'Mitt'
    << <<"V","ä","s","t","m","a","n","l","a","n","d">>,
       <<"M","i","t","t">> >>,  \* 'Västmanland': 'Mitt'
    << <<"V","ä","r","m","l","a","n","d">>,
       <<"M","i","t","t">> >>,  \* 'Värmland': 'Mitt'
    << <<"Ö","r","e","b","r","o">>,
       <<"M","i","t","t">> >>,  \* 'Örebro': 'Mitt'
    << <<"D","a","l","a","r","n","a">>,
       <<"M","i","t","t">> >>,  \* 'Dalarna': 'Mitt'
    << <<"G","ä","v","l","e","b","o","r","g">>,
       <<"M","i","t","t">> >>,  \* 'Gävleborg': 'Mitt'
    << <<"S","t","o","c","k","h","o","l","m">>,
       <<"Ö","s","t">> >>,  \* 'Stockholm': 'Öst'
    << <<"H","a","l","l","a","n","d">>,
       <<"V","ä","s","t">> >>,  \* 'Halland': 'Väst'
    << <<"V","ä","s","t","r","a"," ","G","ö","t","a","l","a","n","d">>,
       <<"V","ä","s","t">> >>,  \* 'Västra Götaland': 'Väst'
    << <<"J","ö","n","k","ö","p","i","n","g">>,
       <<"S","y","d","ö","s","t">> >>,  \* 'Jönköping': 'Sydöst'
    << <<"K","a","l","m","a","r">>,
       <<"S","y","d","ö","s","t">> >>,  \* 'Kalmar': 'Sydöst'
    << <<"Ö","s","t","e","r","g","ö","t","l","a","n","d">>,
       <<"S","y","d","ö","s","t">> >>  \* 'Östergötland': 'Sydöst'
  >>

(* trafikverket_regions.TRAFIKVERKET_REGIONS: (county name, region) items in source order *)
TRAFIKVERKET_REGIONS ==
  <<
    << <<"S","k","å","n","e">>,
       <<"S","y","d">> >>,  \* 'Skåne': 'Syd'
    << <<"K","r","o","n","o","b","e","r","g">>,
       <<"S","y","d">> >>,  \* 'Kronoberg': 'Syd'
    << <<"B","l","e","k","i","n","g","e">>,
       <<"S","y","d">> >>,  \* 'Blekinge': 'Syd'
    << <<"V","ä","s","t","e","r","n","o","r","r","l","a","n","d">>,
       <<"N","o","r","r">> >>,  \* 'Västernorrland': 'Norr'
    << <<"J","ä","m","t","l","a","n","d">>,
       <<"N","o","r","r">> >>,  \* 'Jämtland': 'Norr'
    << <<"V","ä","s","t","e","r","b","o","t","t","e","n">>,
       <<"N","o","r","r">> >>,  \* 'Västerbotten': 'Norr'
    << <<"N","o","r","r","b","o","t","t","e","n">>,
       <<"N","o","r","r">> >>,  \* 'Norrbotten': 'Norr'
    << <<"U","p","p","s","a","l","a">>,
       <<"M","i","t","t">> >>,  \* 'Uppsala': 'Mitt'
    << <<"S","ö","d","e","r","m","a","n","l","a","n","d">>,
       <<"M","i","t","t">> >>,  \* 'Södermanland': 'Mitt'
    << <<"V","ä","s","t","m","a","n","l","a","n","d">>,
       <<"M","i","t","t">> >>,  \* 'Västmanland': 'Mitt'
    << <<"V","ä","r","m","l","a","n","d">>,
       <<"M","i","t","t">> >>,  \* 'Värmland': 'Mitt'
    << <<"Ö","r","e","b","r","o">>,
       <<"M","i","t","t">> >>,  \* 'Örebro': 'Mitt'
    << <<"D","a","l","a","r","n","a">>,
       <<"M","i","t","t">> >>,  \* 'Dalarna': 'Mitt'
    << <<"G","ä","v","l","e","b","o","r","g">>,
       <<"M","i","t","t">> >>,  \* 'Gävleborg': 'Mitt'
    << <<"S","t","o","c","k","h","o","l","m">>,
       <<"Ö","s","t">> >>,  \* 'Stockholm': 'Öst'
    << <<"G","o","t","l","a","n","d">>,
       <<"Ö","s","t">> >>,  \* 'Gotland': 'Öst'
    << <<"H","a","l","l","a","n","d">>,
       <<"V","ä","s","t">> >>,  \* 'Halland': 'Väst'
    << <<"V","ä","s","t","r","a"," ","G","ö","t","a","l","a","n","d">>,
       <<"V","ä","s","t">> >>,  \* 'Västra Götaland': 'Väst'
    << <<"J","ö","n","k","ö","p","i","n","g">>,
       <<"S","y","d","ö","s","t">> >>,  \* 'Jönköping': 'Sydöst'
    << <<"K","a","l","m","a","r">>,
       <<"S","y","d","ö","s","t">> >>,  \* 'Kalmar': 'Sydöst'
    << <<"Ö","s","t","e","r","g","ö","t","l","a","n","d">>,
       <<"S","y","d","ö","s","t">> >>  \* 'Östergötland': 'Sydöst'
  >>

(* trafikverket_regions.TRAFIKVERKET_IDS: (region, id) items in source order *)
TRAFIKVERKET_IDS ==
  <<
    << <<"S","y","d">>,
       <<"2","6">> >>,  \* 'Syd': '26'
    << <<"N","o","r","r">>,
       <<"2","7">> >>,  \* 'Norr': '27'
    << <<"M","i","t","t">>,
       <<"2","8">> >>,  \* 'Mitt': '28'
    << <<"Ö","s","t">>,
       <<"2","9">> >>,  \* 'Öst': '29'
    << <<"V","ä","s","t">>,
       <<"3","0">> >>,  \* 'Väst': '30'
    << <<"S","y","d","ö","s","t">>,
       <<"3","1">> >>  \* 'Sydöst': '31'
  >>

(* ------------------------------- values --------------------------------- *)

(* A raw cell of the uploaded table: a str, an int or a missing value. *)
StrCell(s) ==
  [str |-> s]

IntCell(n) ==
  [int |-> n]

NaCell ==
  [na |-> TRUE]

(* A float: NaN, or the exact fraction num/den in lowest terms, den > 0. *)
NaN ==
  [isna |-> TRUE, num |-> 0, den |-> 1]

Abs(n) ==
  IF n < 0 THEN 0 - n ELSE n

RECURSIVE GCD(_, _)
GCD(a, b) ==
  IF b = 0 THEN a ELSE GCD(b, a % b)

Frac(n, d) ==
  LET g == GCD(Abs(n), d)
  IN  [isna |-> FALSE, num |-> n \div g, den |-> d \div g]

Num(n) ==
  Frac(n, 1)

AddFrac(a, b) ==
  Frac(a.num * b.den + b.num * a.den, a.den * b.den)

RECURSIVE Sum(_)
Sum(values) ==
  IF Len(values) = 0 THEN Num(0) ELSE AddFrac(values[1], Sum(Tail(values)))

(* Series.astype(str) on one cell *)
astype_str(cell) ==
  IF "str" \in DOMAIN cell THEN cell.str
  ELSE IF "int" \in DOMAIN cell THEN str_int(cell.int)
  ELSE <<"n","a","n">>

(* to_numeric with what cannot be converted counted as 0 *)
to_numeric_zero(cell) ==
  IF "int" \in DOMAIN cell THEN Num(cell.int)
  ELSE IF "na" \in DOMAIN cell THEN Num(0)
  ELSE LET s == cell.str
       IN  IF isdigit(s) THEN Num(int_of_digits(s))
           ELSE IF Len(s) > 1 /\ s[1] = "-" /\ isdigit(Tail(s))
                THEN Num(0 - int_of_digits(Tail(s)))
                ELSE Num(0)

(* pd.to_numeric(errors='coerce') on one cell: a number stays, a str of an
   optional minus sign and digits is parsed, anything else becomes NaN *)
to_numeric(cell) ==
  IF "int" \in DOMAIN cell THEN Num(cell.int)
  ELSE IF "na" \in DOMAIN cell THEN NaN
  ELSE LET s == cell.str
       IN  IF isdigit(s) THEN Num(int_of_digits(s))
           ELSE IF Len(s) > 1 /\ s[1] = "-" /\ isdigit(Tail(s))
                THEN Num(0 - int_of_digits(Tail(s)))
                ELSE NaN

(* the sum taken where the mean is meant *)
mean_as_sum(values) ==
  LET present == SelectSeq(values, LAMBDA v : ~v.isna)
  IN  IF Len(present) = 0 THEN NaN ELSE Sum(present)

(* Series.mean() of a numeric column: NaN skipped, NaN when nothing is left *)
mean(values) ==
  LET present == SelectSeq(values, LAMBDA v : ~v.isna)
  IN  IF Len(present) = 0 THEN NaN
      ELSE Frac(Sum(present).num, Sum(present).den * Len(present))

(* The keys of a keyed frame in ascending order (groupby sorts its keys). *)
(* the keys of a group-by listed from the greatest to the least *)
RECURSIVE SortKeysDescending(_)
SortKeysDescending(K) ==
  IF K = {} THEN <<>>
  ELSE LET m == CHOOSE x \in K : \A y \in K \ {x} : StrLess(y, x)
       IN  <<m>> \o SortKeysDescending(K \ {m})

RECURSIVE SortKeys(_)
SortKeys(K) ==
  IF K = {} THEN <<>>
  ELSE LET m == CHOOSE x \in K : \A y \in K \ {x} : StrLess(x, y)
       IN  <<m>> \o SortKeys(K \ {m})

(* the value column of the rows of a keyed frame whose key is k *)
GroupValues(frame, k) ==
  LET rows == SelectSeq(frame, LAMBDA r : r.key = k)
  IN  [j \in 1..Len(rows) |-> rows[j].value]

(* frame.groupby(key)[value_column].mean().reset_index() over rows
   [key, value]: one row per distinct key, ascending by key *)
groupby_mean(frame) ==
  LET keys == SortKeys({frame[i].key : i \in 1..Len(frame)})
  IN  [k \in 1..Len(keys) |->
        [group |-> keys[k], value |-> mean(GroupValues(frame, keys[k]))]]


(* --------------------------- dict look-ups ------------------------------ *)

(* key in d, for a dict given as its items *)
HasKey(d, key) ==
  \E i \in 1..Len(d) : d[i][1] = key

(* d[key]: a later item of a dict literal overrides an earlier one *)
Lookup(d, key) ==
  d[CHOOSE i \in 1..Len(d) : d[i][1] = key /\ \A j \in (i+1)..Len(d) : d[j][1] # key][2]

(* d.values() *)
Values(d) ==
  {d[i][2] : i \in 1..Len(d)}

(* d.keys() *)
Keys(d) ==
  {d[i][1] : i \in 1..Len(d)}

(* ------------------------ utils/data_utils.py --------------------------- *)

(* the padding left out *)
pad_never(x) ==
  x

(* lambda x: '0' + x if x.isdigit() and len(x) == 1 else x *)
pad(x) ==
  IF isdigit(x) /\ Len(x) = 1 THEN <<"0">> \o x ELSE x

(* map_to_region without its case-insensitive step *)
map_to_region_exact(input_region) ==
  IF HasKey(LAN_MAPPING, input_region) THEN Lookup(LAN_MAPPING, input_region)
  ELSE input_region

(* map_to_region: code, then name, then case-insensitive name (the first
   item of LAN_MAPPING that matches), else the input *)
map_to_region(input_region) ==
  IF HasKey(LAN_MAPPING, input_region) THEN Lookup(LAN_MAPPING, input_region)
  ELSE IF input_region \in Values(LAN_MAPPING) THEN input_region
  ELSE IF \E i \in 1..Len(LAN_MAPPING) : lower(input_region) = lower(LAN_MAPPING[i][2])
       THEN LAN_MAPPING[CHOOSE i \in 1..Len(LAN_MAPPING) :
                          /\ lower(input_region) = lower(LAN_MAPPING[i][2])
                          /\ \A j \in 1..(i-1) :
                               lower(input_region) # lower(LAN_MAPPING[j][2])][2]
       ELSE input_region

(* Series.map(NUTS2_MAPPING) on one cell: missing when the key is absent *)
map_nuts2(name) ==
  IF HasKey(NUTS2_MAPPING, name) THEN <<Lookup(NUTS2_MAPPING, name)>> ELSE <<>>

(* processed_df after the region, region_name, nuts2_region and value
   columns are set (data_utils.py:55-92) *)
mapped_frame(frame) ==
  [i \in 1..Len(frame) |->
    LET padded == pad(astype_str(frame[i].region))
        rn     == map_to_region(padded)
    IN  [region       |-> padded,
         region_name  |-> rn,
         nuts2_region |-> map_nuts2(rn),
         value        |-> to_numeric(frame[i].value)]]

(* processed_df.dropna(subset=['region_name', value_column]): region_name
   is a str in every row, so the value column decides *)
dropna_value(frame) ==
  SelectSeq(frame, LAMBDA r : ~r.value.isna)

(* processed_df.dropna(subset=['nuts2_region']) *)
dropna_nuts2(frame) ==
  SelectSeq(frame, LAMBDA r : r.nuts2_region # <<>>)

(* -------------------- utils/trafikverket_regions.py --------------------- *)

LAN_SUFFIX ==
  <<" ","l","ä","n">>

(* map_to_trafikverket_region: '' when the cleaned name is no key *)
map_to_trafikverket_region(county_name) ==
  LET clean_name == IF has_substring(county_name, LAN_SUFFIX)
                    THEN remove_all(county_name, LAN_SUFFIX)
                    ELSE county_name
  IN  IF HasKey(TRAFIKVERKET_REGIONS, clean_name)
      THEN Lookup(TRAFIKVERKET_REGIONS, clean_name)
      ELSE <<>>

(* process_trafikverket_data on the frame process_data hands it *)
process_trafikverket_data(frame) ==
  LET labelled == [i \in 1..Len(frame) |->
                    [key   |-> map_to_trafikverket_region(frame[i].region_name),
                     value |-> frame[i].value]]
      kept     == SelectSeq(labelled, LAMBDA r : r.key # <<>>)
  IN  IF Len(kept) = 0 THEN <<>> ELSE groupby_mean(kept)

(* create_trafikverket_regions: a geometry is the set of the area cells
   it covers, and a GeoDataFrame is [crs, has_name, rows], has_name telling
   whether it has a 'name' column *)

(* gpd.GeoDataFrame() *)
EmptyGeoDataFrame ==
  [crs |-> "", has_name |-> FALSE, rows |-> <<>>]

(* the name left as it is *)
county_name_kept(name) ==
  name

(* x.replace(' län', '') if isinstance(x, str) and ' län' in x else x *)
county_name(name) ==
  IF "str" \in DOMAIN name /\ has_substring(name.str, LAN_SUFFIX)
  THEN StrCell(remove_all(name.str, LAN_SUFFIX))
  ELSE name

(* working_gdf: the rows with the column county_name added *)
working_gdf(rows) ==
  [i \in 1..Len(rows) |->
     [name        |-> rows[i].name,
      county_name |-> county_name(rows[i].name),
      geometry    |-> rows[i].geometry]]

(* [county for county, region in TRAFIKVERKET_REGIONS.items()
    if region == region_name] *)
counties_of(region) ==
  LET items == SelectSeq(TRAFIKVERKET_REGIONS, LAMBDA item : item[2] = region)
  IN  [i \in 1..Len(items) |-> items[i][1]]

(* the geometries of the rows named after the counties, county by county *)
RECURSIVE county_geometries(_, _)
county_geometries(rows, counties) ==
  IF Len(counties) = 0 THEN <<>>
  ELSE LET matching == SelectSeq(rows,
                         LAMBDA r : r.county_name = StrCell(counties[1]))
       IN  [i \in 1..Len(matching) |-> matching[i].geometry]
             \o county_geometries(rows, Tail(counties))

(* the first geometry in place of the union *)
unary_union_first(geoms) ==
  geoms[1]

(* shapely.ops.unary_union: the area covered by any of the geometries *)
unary_union(geoms) ==
  UNION {geoms[i] : i \in 1..Len(geoms)}

(* the merge that keeps a region without geometries, with an empty geometry *)
RECURSIVE region_geometries_all(_, _)
region_geometries_all(rows, region_order) ==
  IF Len(region_order) = 0 THEN <<>>
  ELSE <<<<region_order[1],
           unary_union(county_geometries(rows, counties_of(region_order[1])))>>>>
         \o region_geometries_all(rows, Tail(region_order))

(* the dict region_geometries after the loop over the region names taken
   in region_order *)
RECURSIVE region_geometries(_, _)
region_geometries(rows, region_order) ==
  IF Len(region_order) = 0 THEN <<>>
  ELSE LET geoms == county_geometries(rows, counties_of(region_order[1]))
           rest  == region_geometries(rows, Tail(region_order))
       IN  IF Len(geoms) > 0
           THEN <<<<region_order[1], unary_union(geoms)>>>> \o rest
           ELSE rest

(* create_trafikverket_regions(_input_gdf) when set(TRAFIKVERKET_REGIONS.values())
   is iterated in region_order: the returned frame and the messages shown *)
create_trafikverket_regions(input_gdf, region_order) ==
  IF ~input_gdf.has_name
  THEN [gdf |-> EmptyGeoDataFrame, messages |-> {"error: merge failed"}]
  ELSE LET merged       == region_geometries(working_gdf(input_gdf.rows), region_order)
           regions_data == [i \in 1..Len(merged) |->
                              [name     |-> merged[i][1],
                               id       |-> IF HasKey(TRAFIKVERKET_IDS, merged[i][1])
                                            THEN Lookup(TRAFIKVERKET_IDS, merged[i][1])
                                            ELSE <<>>,
                               geometry |-> merged[i][2]]]
       IN  IF Len(regions_data) > 0
           THEN [gdf      |-> [crs |-> input_gdf.crs, has_name |-> TRUE,
                               rows |-> regions_data],
                 messages |-> {}]
           ELSE [gdf |-> EmptyGeoDataFrame, messages |-> {"warning: no regions created"}]

(* the orders of the elements of S *)
Orders(S) ==
  {o \in [1..Cardinality(S) -> S] : \A a, b \in 1..Cardinality(S) : a # b => o[a] # o[b]}

(* Orders in which set(TRAFIKVERKET_REGIONS.values()) can be iterated: the
   regions that get a geometry in every order, followed by the others *)
IterationOrders(input_gdf) ==
  LET working == working_gdf(input_gdf.rows)
      found   == {g \in Values(TRAFIKVERKET_REGIONS) :
                    Len(county_geometries(working, counties_of(g))) > 0}
  IN  {o \o SortKeys(Values(TRAFIKVERKET_REGIONS) \ found) : o \in Orders(found)}

(* st.session_state before anything is stored: keys is the set of keys
   present; the fields of absent keys hold fixed values *)
EmptySession ==
  [keys |-> {}, lan_data |-> <<>>, nuts2_data |-> <<>>, trafikverket_data |-> <<>>,
   map_type |-> "", value_column |-> "", color_scheme |-> "",
   width |-> 0, height |-> 0, visualization_ready |-> FALSE]

(* nothing displayed *)
NoDisplay ==
  [kind |-> "none"]

(* None in place of a frame *)
NoFrame ==
  [crs |-> "None", has_name |-> FALSE, rows |-> <<>>]

(* ----------------------------- process_data ----------------------------- *)

KeyedBy(frame, column) ==
  [i \in 1..Len(frame) |-> [key |-> frame[i][column], value |-> frame[i].value]]

KeyedByNuts2(frame) ==
  [i \in 1..Len(frame) |-> [key |-> frame[i].nuts2_region[1], value |-> frame[i].value]]

(* the three returned tables and the messages shown *)
process_data(frame) ==
  LET mapped       == mapped_frame(frame)
      processed_df == dropna_value(mapped)
      nuts2_rows   == dropna_nuts2(processed_df)
      tv           == process_trafikverket_data(processed_df)
      lan          == groupby_mean(KeyedBy(processed_df, "region_name"))
      nuts2        == groupby_mean(KeyedByNuts2(nuts2_rows))
      warn         == IF \E i \in 1..Len(mapped) : mapped[i].value.isna
                      THEN {"warning: values set to NaN"} ELSE {}
      err          == IF Len(lan) = 0 /\ Len(nuts2) = 0 /\ Len(tv) = 0
                      THEN {"error: no valid data"} ELSE {}
  IN  [region_name       |-> [i \in 1..Len(mapped) |-> mapped[i].region_name],
       lan_data          |-> lan,
       nuts2_data        |-> nuts2,
       trafikverket_data |-> tv,
       messages          |-> warn \cup err]


(* --------------------- utils/region_groups.py --------------------------- *)

(* create_custom_region_group(df, 'region_name', value_column, custom_groups) *)
(* the aggregation without the filter on the group's regions *)
RECURSIVE create_custom_region_group_unfiltered(_, _)
create_custom_region_group_unfiltered(frame, groups) ==
  IF Len(groups) = 0 THEN <<>>
  ELSE LET group_name == groups[1][1]
           regions    == groups[1][2]
           rest       == create_custom_region_group_unfiltered(frame, Tail(groups))
       IN  IF Len(regions) = 0 THEN rest
           ELSE IF Len(frame) = 0 THEN rest
           ELSE <<[custom_group |-> group_name,
                   value        |-> mean([j \in 1..Len(frame) |-> frame[j].value]),
                   regions      |-> join(regions),
                   region_count |-> Len(regions)]>> \o rest

(* the aggregation counting the regions that matched rows *)
RECURSIVE create_custom_region_group_matched(_, _)
create_custom_region_group_matched(frame, groups) ==
  IF Len(groups) = 0 THEN <<>>
  ELSE LET group_name == groups[1][1]
           regions    == groups[1][2]
           group_df   == SelectSeq(frame,
                           LAMBDA r : \E i \in 1..Len(regions) : regions[i] = r.region_name)
           rest       == create_custom_region_group_matched(frame, Tail(groups))
       IN  IF Len(regions) = 0 THEN rest
           ELSE IF Len(group_df) = 0 THEN rest
           ELSE <<[custom_group |-> group_name,
                   value        |-> mean([j \in 1..Len(group_df) |-> group_df[j].value]),
                   regions      |-> join(regions),
                   region_count |->
                     Cardinality({group_df[j].region_name : j \in 1..Len(group_df)})]>>
                \o rest

RECURSIVE create_custom_region_group(_, _)
create_custom_region_group(frame, groups) ==
  IF Len(groups) = 0 THEN <<>>
  ELSE LET group_name == groups[1][1]
           regions    == groups[1][2]
           group_df   == SelectSeq(frame,
                           LAMBDA r : \E i \in 1..Len(regions) : regions[i] = r.region_name)
           rest       == create_custom_region_group(frame, Tail(groups))
       IN  IF Len(regions) = 0 THEN rest
           ELSE IF Len(group_df) = 0 THEN rest
           ELSE <<[custom_group |-> group_name,
                   value        |-> mean([j \in 1..Len(group_df) |-> group_df[j].value]),
                   regions      |-> join(regions),
                   region_count |-> Len(regions)]>> \o rest

(* get_available_regions(): the base-region names, sorted *)
get_available_regions ==
  SortKeys(Values(LAN_MAPPING))

(* every region offered, those of the groups included *)
get_unused_regions_all(groups) ==
  get_available_regions

(* the unused regions left unsorted: in the order of LAN_MAPPING *)
get_unused_regions_unsorted(groups) ==
  LET used == UNION {{groups[g][2][k] : k \in 1..Len(groups[g][2])} : g \in 1..Len(groups)}
  IN  SelectSeq([i \in 1..Len(LAN_MAPPING) |-> LAN_MAPPING[i][2]], LAMBDA n : n \notin used)

(* get_unused_regions(custom_groups):
   sorted(list(set(get_available_regions()) - used_regions)) *)
get_unused_regions(groups) ==
  LET all_regions  == {get_available_regions[i] : i \in 1..Len(get_available_regions)}
      used_regions == UNION {{groups[g][2][k] : k \in 1..Len(groups[g][2])} :
                               g \in 1..Len(groups)}
  IN  SortKeys(all_regions \ used_regions)

(* ---------------------------- ui/custom_groups --------------------------- *)

(* d.setdefault(key, value): an existing entry is kept *)
dict_setdefault(d, key, value) ==
  IF HasKey(d, key) THEN d ELSE Append(d, <<key, value>>)

(* d[key] = value: an existing entry keeps its place and gets the value, a
   new one goes last *)
dict_set(d, key, value) ==
  IF HasKey(d, key)
  THEN [i \in 1..Len(d) |-> IF d[i][1] = key THEN <<key, value>> ELSE d[i]]
  ELSE Append(d, <<key, value>>)

(* del d[key] *)
dict_del(d, key) ==
  SelectSeq(d, LAMBDA item : item[1] # key)

(* seq[a:b] for 0 <= a, 0 <= b *)
Slice(seq, a, b) ==
  SubSeq(seq, a + 1, IF b < Len(seq) THEN b ELSE Len(seq))

(* seq without its i-th element *)
WithoutAt(seq, i) ==
  SubSeq(seq, 1, i - 1) \o SubSeq(seq, i + 1, Len(seq))

Reverse(seq) ==
  [i \in 1..Len(seq) |-> seq[Len(seq) + 1 - i]]

(* the handler of "Lägg till grupp": the grouping after the submission *)
submit_new_group(groups, new_group_name, selected_regions) ==
  IF new_group_name # <<>> /\ selected_regions # <<>>
  THEN dict_set(groups, new_group_name, selected_regions)
  ELSE groups

(* the options of a group's edit box: all regions minus those of the
   other groups, sorted *)
available_for_group(groups, group_name) ==
  LET other_groups_regions ==
        UNION {{groups[g][2][k] : k \in 1..Len(groups[g][2])} :
                 g \in {h \in 1..Len(groups) : groups[h][1] # group_name}}
  IN  SortKeys(Values(LAN_MAPPING) \ other_groups_regions)

group_names ==
  <<<<"N","o","r","r","a">>, <<"S","ö","d","r","a">>, <<"Ö","s","t","r","a">>, <<"V","ä","s","t","r","a">>>>

(* randint(-1, 1) drawn from a wider range *)
VariationsWide ==
  (0 - 2)..2

(* the outcomes of random.randint(-1, 1) *)
Variations ==
  (0 - 1)..1

(* the slicing with every group starting at a multiple of
   regions_per_group *)
create_random_groups_fixed_start(random_regions, variation) ==
  LET regions_per_group == Len(random_regions) \div 4
  IN  [i \in 1..4 |->
         <<group_names[i],
           IF i = 4 THEN Slice(random_regions, 3 * regions_per_group, Len(random_regions))
           ELSE Slice(random_regions, (i - 1) * regions_per_group,
                      (i - 1) * regions_per_group + regions_per_group + variation[i])>>]

(* create_random_groups() for a shuffled list random_regions and the three
   draws variation[1..3] of randint(-1, 1): the grouping it leaves *)
create_random_groups(random_regions, variation) ==
  LET total_regions     == Len(random_regions)
      regions_per_group == total_regions \div 4
      end_idx_0 == 0 + regions_per_group + variation[1]
      end_idx_1 == end_idx_0 + regions_per_group + variation[2]
      end_idx_2 == end_idx_1 + regions_per_group + variation[3]
  IN  <<<<group_names[1], Slice(random_regions, 0, end_idx_0)>>,
        <<group_names[2], Slice(random_regions, end_idx_0, end_idx_1)>>,
        <<group_names[3], Slice(random_regions, end_idx_1, end_idx_2)>>,
        <<group_names[4], Slice(random_regions, end_idx_2, total_regions)>>>>

(* -------------------------------- inputs -------------------------------- *)

(* all sequences over S of length at most n *)
SeqUpTo(S, n) ==
  UNION {[1..k -> S] : k \in 0..n}

(* Rows the input tables are built from: codes with and without their
   leading zero, names in either case, unknown identifiers, a name with the
   ' län' suffix, and numeric, textual and missing values. *)
RowUniverse ==
  {
    [region |-> StrCell(<<"0","1">>),
     value  |-> IntCell(100)],
    [region |-> StrCell(<<"1">>),
     value  |-> IntCell(300)],
    [region |-> StrCell(<<"S","t","o","c","k","h","o","l","m">>),
     value  |-> IntCell(200)],
    [region |-> StrCell(<<"s","t","o","c","k","h","o","l","m">>),
     value  |-> StrCell(<<"a","b","c">>)],
    [region |-> StrCell(<<"A","t","l","a","n","t","i","s">>),
     value  |-> IntCell(5)],
    [region |-> StrCell(<<"2">>),
     value  |-> IntCell(9)],
    [region |-> StrCell(<<"K","a","l","m","a","r"," ","l","ä","n">>),
     value  |-> IntCell(10)],
    [region |-> StrCell(<<"K","a","l","m","a","r">>),
     value  |-> IntCell(20)],
    [region |-> StrCell(<<"G","o","t","l","a","n","d">>),
     value  |-> NaCell],
    [region |-> IntCell(12),
     value  |-> StrCell(<<"4","0">>)]
  }

(* Rows of the frames handed to create_custom_region_group. *)
DataRowUniverse ==
  {
    [region_name |-> <<"N","o","r","r","b","o","t","t","e","n">>,
     value       |-> Num(10)],
    [region_name |-> <<"V","ä","s","t","e","r","b","o","t","t","e","n">>,
     value       |-> Num(20)],
    [region_name |-> <<"S","k","å","n","e">>,
     value       |-> Num(5)],
    [region_name |-> <<"S","k","å","n","e">>,
     value       |-> NaN],
    [region_name |-> <<"G","o","t","l","a","n","d">>,
     value       |-> NaN],
    [region_name |-> <<"A","t","l","a","n","t","i","s">>,
     value       |-> Num(7)]
  }

(* Group definitions the custom groupings are built from. *)
GroupUniverse ==
  {
    << <<"N","o","r","r","a">>,
       <<<<"N","o","r","r","b","o","t","t","e","n">>, <<"V","ä","s","t","e","r","b","o","t","t","e","n">>>> >>,
    << <<"S","ö","d","r","a">>,
       <<<<"S","k","å","n","e">>>> >>,
    << <<"T","o","m">>,
       <<>> >>,
    << <<"Ö","a","r","n","a">>,
       <<<<"G","o","t","l","a","n","d">>>> >>
  }

(* Group definitions get_unused_regions is tried on: those above, and
   groups with a name that is no base region, with many regions, and with
   regions that are in another group too. *)
UnusedGroupUniverse ==
  GroupUniverse \cup
  {
    << <<"U","t","l","a","n","d">>,
       <<<<"A","t","l","a","n","t","i","s">>, <<"S","k","å","n","e">>>> >>,
    << <<"M","ä","l","a","r","d","a","l","e","n">>,
       <<<<"S","t","o","c","k","h","o","l","m">>, <<"U","p","p","s","a","l","a">>, <<"S","ö","d","e","r","m","a","n","l","a","n","d">>, <<"V","ä","s","t","m","a","n","l","a","n","d">>, <<"Ö","r","e","b","r","o">>>> >>,
    << <<"S","a","g","o","l","a","n","d">>,
       <<<<"A","t","l","a","n","t","i","s">>>> >>,
    << <<"Ö","v","e","r","l","a","p","p">>,
       <<<<"N","o","r","r","b","o","t","t","e","n">>, <<"S","k","å","n","e">>>> >>
  }

(* groupings of up to MaxGroups groups with distinct labels *)
UnusedGroupings ==
  {g \in SeqUpTo(UnusedGroupUniverse, MaxGroups) :
     \A a, b \in 1..Len(g) : a # b => g[a][1] # g[b][1]}

(* Labels typed into "Namn på gruppen": none, a new one, and one that
   create_random_groups uses too. *)
GroupNameInputs ==
  {<<>>, <<"N","o","r","r","a">>, <<"E","g","e","n">>}

(* The regions picked in the region boxes of the grouping UI. *)
SelectableRegions ==
  {<<"N","o","r","r","b","o","t","t","e","n">>, <<"S","k","å","n","e">>, <<"G","o","t","l","a","n","d">>}

(* the choices of a multiselect over `options`: lists, in the order
   picked, of distinct selectable options *)
Selections(options) ==
  LET S == {options[i] : i \in 1..Len(options)} \cap SelectableRegions
  IN  {sel \in SeqUpTo(S, Cardinality(S)) :
         \A a, b \in 1..Len(sel) : a # b => sel[a] # sel[b]}

(* what a group's edit box can hold when "Uppdatera regioner" is pressed,
   one change at a time: the group's regions, or them without one
   selectable region, or them and one more selectable option *)
Edits(regions, options) ==
  {regions}
  \cup {WithoutAt(regions, i) : i \in {k \in 1..Len(regions) : regions[k] \in SelectableRegions}}
  \cup {Append(regions, n) :
          n \in ({options[i] : i \in 1..Len(options)} \cap SelectableRegions)
                  \ {regions[k] : k \in 1..Len(regions)}}

(* The outcomes of random.shuffle tried: the sorted list kept as it is,
   and reversed. *)
ShuffleOutcomes ==
  {get_available_regions, Reverse(get_available_regions)}

(* Features of the county boundary file the merge is tried on: counties
   of the regions Öst, Sydöst and Syd, one of them named with ' län', one
   name twice with overlapping areas, a name that is no county once
   ' län' is removed, and a feature without a name. *)
FeatureUniverse ==
  {
    [name |-> StrCell(<<"S","t","o","c","k","h","o","l","m">>),
     geometry |-> {1}],
    [name |-> StrCell(<<"G","o","t","l","a","n","d">>),
     geometry |-> {2}],
    [name |-> StrCell(<<"G","o","t","l","a","n","d">>),
     geometry |-> {2, 3}],
    [name |-> StrCell(<<"K","a","l","m","a","r"," ","l","ä","n">>),
     geometry |-> {4}],
    [name |-> StrCell(<<"S","k","å","n","e">>),
     geometry |-> {5}],
    [name |-> StrCell(<<"S","t","o","c","k","h","o","l","m","s"," ","l","ä","n">>),
     geometry |-> {6}],
    [name |-> NaCell,
     geometry |-> {7}]
  }

(* The values of _input_gdf.crs tried: none, and WGS 84. *)
CrsUniverse ==
  {"", "EPSG:4326"}

(* The frames create_trafikverket_regions is called on: with a 'name'
   column and up to MaxRows features, and frames without that column. *)
GeoDataFrames ==
  {[crs |-> c, has_name |-> TRUE, rows |-> rows] :
     c \in CrsUniverse, rows \in SeqUpTo(FeatureUniverse, MaxRows)}
  \cup
  {[crs |-> c, has_name |-> FALSE, rows |-> rows] :
     c \in CrsUniverse, rows \in SeqUpTo({[name |-> NaCell, geometry |-> {7}]}, MaxRows)}

(* s with the case of its i-th character changed *)
flip(s, i) ==
  [s EXCEPT ![i] = IF Contains(UPPERCASE, s[i]) THEN lower_char(s[i]) ELSE upper_char(s[i])]

(* a name, all lower, all upper, and each single-character case change *)
CaseVariants(s) ==
  {s, lower(s), upper(s)} \cup {flip(s, i) : i \in 1..Len(s)}

(* s in every mix of upper and lower case *)
RECURSIVE AllCaseVariants(_)
AllCaseVariants(s) ==
  IF Len(s) = 0 THEN {<<>>}
  ELSE {<<c>> \o t : c \in {lower_char(s[1]), upper_char(s[1])},
                      t \in AllCaseVariants(Tail(s))}

(* Identifier cells of the one-row tables: every one- and two-digit string,
   every name in its case variants (the short names in all of them), and
   the ints and the missing value a parsed column holds. *)
IdentifierCells ==
  {StrCell(<<DIGITS[a]>>) : a \in 1..Len(DIGITS)}
    \cup {StrCell(<<DIGITS[a], DIGITS[b]>>) : a \in 1..Len(DIGITS), b \in 1..Len(DIGITS)}
    \cup {StrCell(v) : v \in UNION {CaseVariants(n) : n \in Values(LAN_MAPPING)}}
    \cup {StrCell(v) : v \in UNION {AllCaseVariants(n) :
                                      n \in {m \in Values(LAN_MAPPING) : Len(m) <= MaxVariantLen}}}
    \cup {IntCell(n) : n \in 0..Len(LAN_MAPPING)}
    \cup {NaCell}

(* The tables process_data is applied to. *)
Tables ==
  SeqUpTo(RowUniverse, MaxRows)
    \cup {<<[region |-> c, value |-> IntCell(1)]>> : c \in IdentifierCells}

(* Custom groupings: a dict has each name once. *)
Groupings ==
  {g \in SeqUpTo(GroupUniverse, MaxGroups) :
     \A i \in 1..Len(g) : \A j \in 1..Len(g) : g[i][1] = g[j][1] => i = j}

(* ------------------------- utils/geo_utils.py --------------------------- *)

(* config.NUTS_ID_TO_NAME *)
NUTS_ID_TO_NAME ==
  <<
    << <<"S","E","1","1">>,
       <<"S","t","o","c","k","h","o","l","m">> >>,
    << <<"S","E","1","2">>,
       <<"Ö","s","t","r","a"," ","M","e","l","l","a","n","s","v","e","r","i","g","e">> >>,
    << <<"S","E","2","1">>,
       <<"S","m","å","l","a","n","d"," ","m","e","d"," ","ö","a","r","n","a">> >>,
    << <<"S","E","2","2">>,
       <<"S","y","d","s","v","e","r","i","g","e">> >>,
    << <<"S","E","2","3">>,
       <<"V","ä","s","t","s","v","e","r","i","g","e">> >>,
    << <<"S","E","3","1">>,
       <<"N","o","r","r","a"," ","M","e","l","l","a","n","s","v","e","r","i","g","e">> >>,
    << <<"S","E","3","2">>,
       <<"M","e","l","l","e","r","s","t","a"," ","N","o","r","r","l","a","n","d">> >>,
    << <<"S","E","3","3">>,
       <<"Ö","v","r","e"," ","N","o","r","r","l","a","n","d">> >>
  >>

(* str.startswith *)
startswith(s, prefix) ==
  Len(s) >= Len(prefix) /\ SubSeq(s, 1, Len(prefix)) = prefix

(* the county frame GeoDataFrame.from_features builds from the county source *)
lan_geojson ==
  [crs |-> "", has_name |-> TRUE,
   rows |-> <<[name |-> StrCell(<<"S","k","å","n","e">>), geometry |-> {5}],
              [name |-> StrCell(<<"G","o","t","l","a","n","d">>), geometry |-> {2}]>>]

(* the 'name' of a feature of the NUTS-2 frame, whose columns are the
   properties some Swedish feature has: NUTS_NAME, else NAME, else
   NUTS_ID.map(NUTS_ID_TO_NAME); a property the feature lacks is NaN *)
nuts2_name(feature, columns) ==
  IF "NUTS_NAME" \in columns
  THEN IF Len(feature.NUTS_NAME) = 1 THEN StrCell(feature.NUTS_NAME[1]) ELSE NaCell
  ELSE IF "NAME" \in columns
  THEN IF Len(feature.NAME) = 1 THEN StrCell(feature.NAME[1]) ELSE NaCell
  ELSE IF Len(feature.NUTS_ID) = 1 /\ HasKey(NUTS_ID_TO_NAME, feature.NUTS_ID[1])
  THEN StrCell(Lookup(NUTS_ID_TO_NAME, feature.NUTS_ID[1]))
  ELSE NaCell

(* _load_base_geojson() on the features of the NUTS-2 source: the test
   feature["properties"]["NUTS_ID"] raises KeyError on a feature without
   that property, which the except turns into st.error and (None, None) *)
load_base_geojson(features) ==
  IF \E k \in 1..Len(features) : Len(features[k].NUTS_ID) = 0
  THEN [lan_gdf |-> NoFrame, nuts2_gdf |-> NoFrame, messages |-> {"error: loading failed"}]
  ELSE LET swedish_nuts2_features ==
             SelectSeq(features, LAMBDA f : startswith(f.NUTS_ID[1], <<"S","E">>))
           has(f, property) ==
             CASE property = "NUTS_ID"   -> Len(f.NUTS_ID) = 1
               [] property = "NUTS_NAME" -> Len(f.NUTS_NAME) = 1
               [] property = "NAME"      -> Len(f.NAME) = 1
           columns ==
             {c \in {"NUTS_ID", "NUTS_NAME", "NAME"} :
                \E k \in 1..Len(swedish_nuts2_features) : has(swedish_nuts2_features[k], c)}
           named == columns # {}
       IN  [lan_gdf   |-> lan_geojson,
            nuts2_gdf |->
              [crs |-> "", has_name |-> named,
               rows |-> [k \in 1..Len(swedish_nuts2_features) |->
                           [NUTS_ID  |-> swedish_nuts2_features[k].NUTS_ID[1],
                            name     |-> nuts2_name(swedish_nuts2_features[k], columns),
                            geometry |-> swedish_nuts2_features[k].geometry]]],
            messages  |-> IF named THEN {} ELSE {"warning: no name columns"}]

(* Features of the NUTS-2 source the loader is tried on: Swedish regions
   with only NUTS_ID, with all three properties, with NAME; a region of
   another country; a feature with a name and no NUTS_ID; a feature
   without properties; a Swedish id the table does not have. *)
NutsFeatureUniverse ==
  {
    [NUTS_ID |-> <<<<"S","E","1","1">>>>,
     NUTS_NAME |-> <<>>,
     NAME |-> <<>>,
     geometry |-> {1}],
    [NUTS_ID |-> <<<<"S","E","3","3">>>>,
     NUTS_NAME |-> <<>>,
     NAME |-> <<>>,
     geometry |-> {2}],
    [NUTS_ID |-> <<<<"S","E","1","1">>>>,
     NUTS_NAME |-> <<<<"S","t","o","c","k","h","o","l","m">>>>,
     NAME |-> <<<<"S","t","h","l","m">>>>,
     geometry |-> {1}],
    [NUTS_ID |-> <<<<"S","E","1","2">>>>,
     NUTS_NAME |-> <<>>,
     NAME |-> <<<<"Ö","s","t","r","a"," ","M","e","l","l","a","n","s","v","e","r","i","g","e">>>>,
     geometry |-> {3}],
    [NUTS_ID |-> <<<<"D","K","0","1">>>>,
     NUTS_NAME |-> <<>>,
     NAME |-> <<>>,
     geometry |-> {4}],
    [NUTS_ID |-> <<>>,
     NUTS_NAME |-> <<<<"S","t","o","c","k","h","o","l","m">>>>,
     NAME |-> <<>>,
     geometry |-> {1}],
    [NUTS_ID |-> <<>>,
     NUTS_NAME |-> <<>>,
     NAME |-> <<>>,
     geometry |-> {5}],
    [NUTS_ID |-> <<<<"S","E","9","9">>>>,
     NUTS_NAME |-> <<>>,
     NAME |-> <<>>,
     geometry |-> {6}]
  }

(* the NUTS-2 sources: up to MaxFeatures features *)
NutsSources ==
  SeqUpTo(NutsFeatureUniverse, MaxFeatures)

(* ------------------- the map of the custom groups ----------------------- *)

(* mapplot.create_custom_groups_map(data, gdf, custom_groups, ...): one
   patch per group with regions, in the order of the dict, holding the
   group's mean over data[data['region_name'].isin(regions)] and the
   features gdf[gdf['name'].isin(regions)] it fills; the colour of a patch
   is gray when the mean is NaN and else taken from the mean.  A frame
   without 'name' raises inside the try once a group with regions is
   plotted: st.error and None. *)
create_custom_groups_map(frame, lan_gdf, groups) ==
  LET plotted == SelectSeq(groups, LAMBDA g : Len(g[2]) > 0)
      isin(value, regions) == \E k \in 1..Len(regions) : regions[k] = value
      patch(g) ==
        LET members == SelectSeq(frame, LAMBDA r : isin(r.region_name, g[2]))
            group_value == mean([j \in 1..Len(members) |-> members[j].value])
        IN  [label    |-> g[1],
             value    |-> group_value,
             color    |-> IF group_value.isna THEN "gray" ELSE "cmap",
             features |-> SelectSeq(lan_gdf.rows,
                            LAMBDA f : \E k \in 1..Len(g[2]) : f.name = StrCell(g[2][k]))]
  IN  IF Len(plotted) > 0 /\ ~lan_gdf.has_name
      THEN [fig |-> <<>>, messages |-> {"error: custom groups map failed"}]
      ELSE [fig |-> <<[patches |-> [k \in 1..Len(plotted) |-> patch(plotted[k])]]>>,
            messages |-> {}]

(* the parameters in the signature of create_custom_groups_map *)
create_custom_groups_map_parameters ==
  {"data", "gdf", "custom_groups", "value_column", "color_scheme", "width", "height",
   "show_borders", "show_labels"}

(* the keyword arguments of the call in display_custom_groups_analysis *)
create_custom_groups_map_keywords ==
  {"width", "height", "show_borders", "show_labels",
   "use_fixed_scale", "scale_min", "scale_max"}

(* DataFrame.sort_values(value_column, ascending=False): greatest first,
   NaN last, ties in the order they had *)
RECURSIVE sort_values_descending(_)
sort_values_descending(frame) ==
  IF Len(frame) = 0 THEN <<>>
  ELSE LET before(a, b) ==
             /\ ~a.isna
             /\ (b.isna \/ a.num * b.den > b.num * a.den)
           greatest(i) == \A j \in 1..Len(frame) : ~before(frame[j].value, frame[i].value)
           first == CHOOSE i \in 1..Len(frame) :
                      greatest(i) /\ \A j \in 1..(i - 1) : ~greatest(j)
       IN  <<frame[first]>> \o sort_values_descending(WithoutAt(frame, first))

(* ---------------------- the map of an aggregate ------------------------- *)

(* s.split(' ')[0] *)
split_first(s) ==
  IF Contains(s, " ") THEN SubSeq(s, 1, IndexOfFirst(s, " ") - 1) ELSE s

(* s.split(' ', 1)[1] if ' ' in s else s *)
split_rest(s) ==
  IF Contains(s, " ") THEN SubSeq(s, IndexOfFirst(s, " ") + 1, Len(s)) ELSE s

(* 'NUTS_ID' in gdf.columns: a frame made from no feature has no column *)
has_nuts_id(frame) ==
  Len(frame.rows) > 0 /\ \A k \in 1..Len(frame.rows) : "NUTS_ID" \in DOMAIN frame.rows[k]

(* gdf.merge(data, left_on=..., right_on=..., how='inner'): the pairs of a
   frame row and a table row with equal keys, in the order of the frame;
   left_on and right_on list the key of every row *)
RECURSIVE merge_inner(_, _, _, _)
merge_inner(rows, left_on, table, right_on) ==
  IF Len(rows) = 0 THEN <<>>
  ELSE LET matches == SelectSeq([j \in 1..Len(table) |-> j],
                                LAMBDA j : right_on[j] = left_on[1])
       IN  [n \in 1..Len(matches) |->
             [name |-> rows[1].name, geometry |-> rows[1].geometry,
              group |-> table[matches[n]].group, value |-> table[matches[n]].value]]
           \o merge_inner(Tail(rows), Tail(left_on), table, right_on)

(* the table with the column nuts_code added or overwritten *)
with_nuts_code(table) ==
  [k \in 1..Len(table) |->
    [group |-> table[k].group, value |-> table[k].value,
     nuts_code |-> split_first(table[k].group)]]

(* the table create_matplotlib_map leaves in the caller's frame: data is
   changed in place, data['nuts_code'] = ... when the NUTS-2 frame has
   NUTS_ID; pd.to_numeric leaves the numeric means as they are *)
data_after_map(table, frame, is_nuts2) ==
  IF is_nuts2 /\ has_nuts_id(frame) THEN with_nuts_code(table) ELSE table

(* mapplot.create_matplotlib_map(data, gdf, location_col, ..., is_nuts2,
   is_trafikverket): the figure is the merged rows that are drawn; fig is
   <<>> when None is returned *)
create_matplotlib_map(table, frame, is_nuts2, is_trafikverket) ==
  LET after == data_after_map(table, frame, is_nuts2)
      failed(message) == [data |-> after, fig |-> <<>>, messages |-> {message}]
      drawn(merged) ==
        IF Len(merged) = 0
        THEN failed("error: empty merge")
        ELSE [data |-> after,
              fig |-> <<[regions |-> SelectSeq(merged, LAMBDA m : ~m.value.isna)]>>,
              messages |-> {}]
  IN  IF is_nuts2
      THEN IF has_nuts_id(frame)
           THEN drawn(merge_inner(frame.rows,
                                  [k \in 1..Len(frame.rows) |-> StrCell(frame.rows[k].NUTS_ID)],
                                  after,
                                  [j \in 1..Len(after) |-> StrCell(after[j].nuts_code)]))
           ELSE LET region(d) == split_rest(d.group)
                    hit(d, k)  == \/ frame.rows[k].name = NaCell
                                  \/ has_substring(lower(frame.rows[k].name.str),
                                                   lower(region(d)))
                    first(d)   == IF \E k \in 1..Len(frame.rows) : hit(d, k)
                                  THEN CHOOSE k \in 1..Len(frame.rows) :
                                         hit(d, k) /\ \A j \in 1..(k - 1) : ~hit(d, j)
                                  ELSE 0
                    matched    == SelectSeq(after, LAMBDA d : first(d) > 0)
                IN  IF Len(after) > 0 /\ Len(frame.rows) > 0 /\ ~frame.has_name
                    THEN failed("error: map failed")
                    ELSE IF \E j \in 1..Len(after) :
                              first(after[j]) > 0
                              /\ frame.rows[first(after[j])].name = NaCell
                    THEN failed("error: map failed")
                    ELSE IF Len(matched) = 0
                    THEN failed("error: no matches")
                    ELSE drawn([j \in 1..Len(matched) |->
                                 [name     |-> frame.rows[first(matched[j])].name,
                                  geometry |-> frame.rows[first(matched[j])].geometry,
                                  group    |-> matched[j].group,
                                  value    |-> matched[j].value]])
      ELSE IF ~frame.has_name
           THEN failed("error: map failed")
           ELSE drawn(merge_inner(frame.rows,
                                  [k \in 1..Len(frame.rows) |-> frame.rows[k].name],
                                  after,
                                  [j \in 1..Len(after) |-> StrCell(after[j].group)]))

(* data.to_csv(index=False): the header and one line per row *)
to_csv(table, location_col) ==
  LET extra == Len(table) > 0 /\ "nuts_code" \in DOMAIN table[1]
  IN  [header |-> <<location_col, "value">> \o (IF extra THEN <<"nuts_code">> ELSE <<>>),
       lines  |-> [k \in 1..Len(table) |->
                    IF extra THEN <<table[k].group, table[k].value, table[k].nuts_code>>
                    ELSE <<table[k].group, table[k].value>>]]

(* the frame create_trafikverket_regions returned, its names, which are
   never missing, written as cells like those of the source frames *)
as_cells(frame) ==
  [frame EXCEPT !.rows = [k \in 1..Len(frame.rows) |->
                            [name     |-> StrCell(frame.rows[k].name),
                             geometry |-> frame.rows[k].geometry]]]

(* the options of "Välj visualiseringsnivå" display_visualization knows *)
MAP_TYPES ==
  {"Län", "NUTS-2 Regioner", "Trafikverket Regioner"}

(* mapplot.display_visualization(lan_data, nuts2_data, trafikverket_data,
   lan_gdf, nuts2_gdf, trafikverket_gdf, map_type, ...): the tables as the
   call leaves them, and what is displayed *)
display_visualization(lan, nuts2, tv, lan_frame, nuts2_frame, tv_frame, map_type) ==
  LET chosen ==
        IF map_type = "Län" /\ Len(lan) > 0 THEN "region_name"
        ELSE IF map_type = "NUTS-2 Regioner" /\ Len(nuts2) > 0 THEN "nuts2_region"
        ELSE IF map_type = "Trafikverket Regioner" /\ Len(tv) > 0 THEN "trafikverket_region"
        ELSE "none"
      table == CASE chosen = "region_name" -> lan
                 [] chosen = "nuts2_region" -> nuts2
                 [] OTHER -> tv
      frame == CASE chosen = "region_name" -> lan_frame
                 [] chosen = "nuts2_region" -> nuts2_frame
                 [] OTHER -> as_cells(tv_frame)
      r == create_matplotlib_map(table, frame, chosen = "nuts2_region",
                                 chosen = "trafikverket_region")
  IN  IF chosen = "none"
      THEN [lan_data |-> lan, nuts2_data |-> nuts2, trafikverket_data |-> tv,
            shown |-> [kind |-> "visualization", map_type |-> map_type,
                       elements |-> <<"header">>, fig |-> <<>>, csv |-> <<>>],
            messages |-> {"error: no data"}]
      ELSE [lan_data |-> IF chosen = "region_name" THEN r.data ELSE lan,
            nuts2_data |-> IF chosen = "nuts2_region" THEN r.data ELSE nuts2,
            trafikverket_data |-> IF chosen = "trafikverket_region" THEN r.data ELSE tv,
            shown |-> [kind |-> "visualization", map_type |-> map_type,
                       elements |-> IF Len(r.fig) > 0
                                    THEN <<"header", "map", "map download",
                                           "summary", "csv download">>
                                    ELSE <<"header">>,
                       fig |-> r.fig,
                       csv |-> IF Len(r.fig) > 0 THEN <<to_csv(r.data, chosen)>> ELSE <<>>],
            messages |-> r.messages]

(* ------------------------------ ui/sidebar.py --------------------------- *)

(* the settings the sidebar's widgets can hold when the script runs: the
   levels of "Välj visualiseringsnivå", two of COLOR_SCHEMES, two of
   SIZE_PRESETS; the value column is the table's one value column *)
SidebarSettings ==
  [map_type : {"Län", "NUTS-2 Regioner"}, value_column : {"value"},
   color_scheme : {"viridis", "Blues"}, size : {<<6, 4>>, <<8, 6>>}]

(* the session after the assignments that follow a Generate with results *)
store_results(state, lan, nuts2, settings) ==
  [state EXCEPT !.keys = @ \cup {"lan_data", "nuts2_data", "map_type", "value_column",
                                 "color_scheme", "width", "height", "visualization_ready"},
                !.lan_data = lan,
                !.nuts2_data = nuts2,
                !.map_type = settings.map_type,
                !.value_column = settings.value_column,
                !.color_scheme = settings.color_scheme,
                !.width = settings.size[1],
                !.height = settings.size[2],
                !.visualization_ready = TRUE]

(* 'visualization_ready' in st.session_state and st.session_state[...] *)
is_ready(state) ==
  "visualization_ready" \in state.keys /\ state.visualization_ready

(* the handler of "Generera visualisering" in the sidebar, r being what
   utils.data_utils.process_data returned: its tuple of three tables is
   unpacked into the two names lan_data, nuts2_data, which raises
   ValueError when the tuple has another length *)
on_generate(r, state, settings) ==
  LET returned == <<r.lan_data, r.nuts2_data, r.trafikverket_data>>
      targets  == <<"lan_data", "nuts2_data">>
  IN  IF Len(returned) # Len(targets)
      THEN [session |-> state, messages |-> r.messages, returned |-> "raised"]
      ELSE IF Len(returned[1]) > 0 \/ Len(returned[2]) > 0
      THEN [session |-> store_results(state, returned[1], returned[2], settings),
            messages |-> r.messages, returned |-> "True"]
      ELSE [session |-> state, messages |-> r.messages \cup {"error: could not process"},
            returned |-> "False"]

(* sidebar.render_visualization_options(df, ...) with the button pressed or
   not; returned is "raised", "True" or "False" *)
render_visualization_options(table, state, settings, pressed) ==
  IF pressed
  THEN on_generate(process_data(table), state, settings)
  ELSE [session |-> state, messages |-> {},
        returned |-> IF is_ready(state) THEN "True" ELSE "False"]

(* main_panel.show_visualization(lan_gdf, nuts2_gdf, trafikverket_gdf):
   st.session_state['lan_data'] raises KeyError when nothing is stored;
   the tables display_visualization changes are those of the session *)
show_visualization(state, lan_frame, nuts2_frame, tv_frame) ==
  IF ~({"lan_data", "nuts2_data", "map_type", "value_column", "color_scheme",
        "width", "height"} \subseteq state.keys)
  THEN [session |-> state, shown |-> NoDisplay, messages |-> {}, raised |-> TRUE]
  ELSE LET r == display_visualization(
                  state.lan_data, state.nuts2_data,
                  IF "trafikverket_data" \in state.keys THEN state.trafikverket_data ELSE <<>>,
                  lan_frame, nuts2_frame, tv_frame, state.map_type)
       IN  [session |-> [state EXCEPT !.lan_data = r.lan_data,
                                      !.nuts2_data = r.nuts2_data,
                                      !.trafikverket_data =
                                         IF "trafikverket_data" \in state.keys
                                         THEN r.trafikverket_data ELSE @],
            shown |-> r.shown, messages |-> r.messages, raised |-> FALSE]

(* -------------------------------- app.py -------------------------------- *)

(* app.process_data(df, region_column, value_column): the county and the
   NUTS-2 aggregate, computed as in utils/data_utils.py, and no third table *)
app_process_data(frame) ==
  LET mapped       == mapped_frame(frame)
      processed_df == dropna_value(mapped)
      lan          == groupby_mean(KeyedBy(processed_df, "region_name"))
      nuts2        == groupby_mean(KeyedByNuts2(dropna_nuts2(processed_df)))
  IN  [lan_data   |-> lan,
       nuts2_data |-> nuts2,
       messages   |-> (IF \E i \in 1..Len(mapped) : mapped[i].value.isna
                       THEN {"warning: values set to NaN"} ELSE {})
                      \cup (IF Len(lan) = 0 /\ Len(nuts2) = 0
                            THEN {"error: no valid data"} ELSE {})]

(* results are stored whatever the tables hold *)
has_results_always(lan, nuts2) ==
  TRUE

(* not lan_data.empty or not nuts2_data.empty *)
has_results(lan, nuts2) ==
  Len(lan) > 0 \/ Len(nuts2) > 0

(* app.create_visualization(lan_data, nuts2_data, lan_gdf, nuts2_gdf,
   map_type, ...): the county map when that level is chosen and has rows,
   else the NUTS-2 map when that table has rows; app.create_matplotlib_map
   is the code of mapplot.create_matplotlib_map without is_trafikverket *)
create_visualization(lan, nuts2, lan_frame, nuts2_frame, map_type) ==
  LET chosen == IF map_type = "Län" /\ Len(lan) > 0 THEN "region_name"
                ELSE IF Len(nuts2) > 0 THEN "nuts2_region"
                ELSE "none"
      r == IF chosen = "region_name"
           THEN create_matplotlib_map(lan, lan_frame, FALSE, FALSE)
           ELSE create_matplotlib_map(nuts2, nuts2_frame, TRUE, FALSE)
  IN  IF chosen = "none"
      THEN [lan_data |-> lan, nuts2_data |-> nuts2,
            shown |-> [kind |-> "visualization", map_type |-> map_type,
                       elements |-> <<"header">>, fig |-> <<>>, csv |-> <<>>],
            messages |-> {"error: no data"}]
      ELSE [lan_data |-> IF chosen = "region_name" THEN r.data ELSE lan,
            nuts2_data |-> IF chosen = "nuts2_region" THEN r.data ELSE nuts2,
            shown |-> [kind |-> "visualization", map_type |-> map_type,
                       elements |-> IF Len(r.fig) > 0
                                    THEN <<"header", "map", "map download",
                                           "summary", "csv download">>
                                    ELSE <<"header">>,
                       fig |-> r.fig,
                       csv |-> IF Len(r.fig) > 0 THEN <<to_csv(r.data, chosen)>> ELSE <<>>],
            messages |-> r.messages]

(* the sidebar of app.main(): the Generate handler when the button was
   pressed, r being what process_data returned *)
main_sidebar(r, state, settings, pressed) ==
  IF pressed /\ has_results(r.lan_data, r.nuts2_data)
  THEN [session |-> store_results(state, r.lan_data, r.nuts2_data, settings),
        messages |-> r.messages, stored |-> TRUE]
  ELSE [session |-> state,
        messages |-> IF pressed THEN r.messages \cup {"error: could not process"} ELSE {},
        stored |-> FALSE]

(* the main area of app.main() after the sidebar: the welcome text, or the
   visualization v of the session's tables, which are changed in place *)
main_area(sidebar, v) ==
  IF ~is_ready(sidebar.session)
  THEN [session |-> sidebar.session, shown |-> [kind |-> "welcome"],
        messages |-> sidebar.messages, stored |-> sidebar.stored]
  ELSE [session |-> [sidebar.session EXCEPT !.lan_data = v.lan_data,
                                            !.nuts2_data = v.nuts2_data],
        shown |-> v.shown, messages |-> sidebar.messages \cup v.messages,
        stored |-> sidebar.stored]

(* the visualization of a session's tables *)
session_visualization(state, lan_frame, nuts2_frame) ==
  create_visualization(state.lan_data, state.nuts2_data, lan_frame, nuts2_frame,
                       state.map_type)

(* one run of app.main() on the table in the sidebar *)
main_with(sidebar, lan_frame, nuts2_frame) ==
  main_area(sidebar, session_visualization(sidebar.session, lan_frame, nuts2_frame))

main(table, state, settings, pressed, lan_frame, nuts2_frame) ==
  main_with(main_sidebar(app_process_data(table), state, settings, pressed),
            lan_frame, nuts2_frame)

(* --------------------------- the state machine -------------------------- *)

InitCommon ==
  /\ pc = "start"
  /\ region_name = <<>>
  /\ lan_data = <<>>
  /\ nuts2_data = <<>>
  /\ trafikverket_data = <<>>
  /\ messages = {}
  /\ grouped_df = <<>>
  /\ available_regions = <<>>
  /\ form_key = 0
  /\ runs = 0
  /\ gdf = EmptyGeoDataFrame
  /\ trafikverket_gdf = EmptyGeoDataFrame
  /\ session = EmptySession
  /\ shown = NoDisplay
  /\ geojson = <<>>
  /\ nuts2_gdf = NoFrame

(* process_data(df, region_column, value_column) is called on an uploaded table *)
Init ==
  /\ InitCommon
  /\ df \in Tables
  /\ data = <<>>
  /\ custom_groups = <<>>

ProcessData ==
  /\ pc = "start"
  /\ pc' = "done"
  /\ LET r == process_data(df)
     IN  /\ region_name' = r.region_name
         /\ lan_data' = r.lan_data
         /\ nuts2_data' = r.nuts2_data
         /\ trafikverket_data' = r.trafikverket_data
         /\ messages' = r.messages
  /\ UNCHANGED <<df, data, custom_groups, grouped_df, ui_vars, geo_vars, view_vars, load_vars>>

Next ==
  ProcessData

Spec ==
  Init /\ [][Next]_vars

(* create_custom_region_group is called on a frame and a grouping *)
InitCustom ==
  /\ InitCommon
  /\ df = <<>>
  /\ data \in SeqUpTo(DataRowUniverse, MaxRows)
  /\ custom_groups \in Groupings

CreateCustomRegionGroup ==
  /\ pc = "start"
  /\ pc' = "done"
  /\ grouped_df' = create_custom_region_group(data, custom_groups)
  /\ UNCHANGED <<df, region_name, lan_data, nuts2_data, trafikverket_data, messages,
                 data, custom_groups, ui_vars, geo_vars, view_vars, load_vars>>

NextCustom ==
  CreateCustomRegionGroup

SpecCustom ==
  InitCustom /\ [][NextCustom]_vars

(* get_unused_regions(custom_groups) is called on a grouping *)
InitUnused ==
  /\ InitCommon
  /\ df = <<>>
  /\ data = <<>>
  /\ custom_groups \in UnusedGroupings

GetUnusedRegions ==
  /\ pc = "start"
  /\ pc' = "done"
  /\ available_regions' = get_unused_regions(custom_groups)
  /\ UNCHANGED <<df, region_name, lan_data, nuts2_data, trafikverket_data, messages,
                 data, custom_groups, grouped_df, form_key, runs, geo_vars, view_vars, load_vars>>

NextUnused ==
  GetUnusedRegions

SpecUnused ==
  InitUnused /\ [][NextUnused]_vars

(* the grouping UI, ui/custom_groups.render_custom_grouping_ui: after
   construction no group is defined; pc names the handler that ran last *)
InitGroups ==
  /\ pc = "render"
  /\ df = <<>>
  /\ region_name = <<>>
  /\ lan_data = <<>>
  /\ nuts2_data = <<>>
  /\ trafikverket_data = <<>>
  /\ messages = {}
  /\ data = <<>>
  /\ grouped_df = <<>>
  /\ custom_groups = <<>>
  /\ available_regions = get_unused_regions(<<>>)
  /\ form_key = 0
  /\ runs = 0
  /\ gdf = EmptyGeoDataFrame
  /\ trafikverket_gdf = EmptyGeoDataFrame
  /\ session = EmptySession
  /\ shown = NoDisplay
  /\ geojson = <<>>
  /\ nuts2_gdf = NoFrame

(* "Lägg till grupp" with a label and a selection of unused regions *)
SubmitNewGroup ==
  \E new_group_name \in GroupNameInputs :
    \E selected_regions \in Selections(available_regions) :
      /\ IF new_group_name # <<>> /\ selected_regions # <<>>
         THEN /\ runs < MaxRuns
              /\ pc' = "added"
              /\ form_key' = form_key + 1
              /\ messages' = {"success: group created"}
              /\ runs' = runs + 1
         ELSE /\ pc' = "rejected"
              /\ messages' = {"error: name and region required"}
              /\ UNCHANGED <<form_key, runs>>
      /\ custom_groups' = submit_new_group(custom_groups, new_group_name, selected_regions)
      /\ available_regions' = get_unused_regions(custom_groups')
      /\ UNCHANGED <<df, region_name, lan_data, nuts2_data, trafikverket_data,
                     data, grouped_df, geo_vars, view_vars, load_vars>>

(* "Uppdatera regioner" of a group *)
UpdateGroup ==
  \E g \in 1..Len(custom_groups) :
    LET group_name == custom_groups[g][1]
        regions    == custom_groups[g][2]
    IN  \E edit_regions \in Edits(regions, available_for_group(custom_groups, group_name)) :
          /\ runs < MaxRuns
          /\ pc' = "updated"
          /\ custom_groups' = dict_set(custom_groups, group_name, edit_regions)
          /\ messages' = {"success: group updated"}
          /\ runs' = runs + 1
          /\ available_regions' = get_unused_regions(custom_groups')
          /\ UNCHANGED <<df, region_name, lan_data, nuts2_data, trafikverket_data,
                         data, grouped_df, form_key, geo_vars, view_vars, load_vars>>

(* "Ta bort grupp" of a group *)
DeleteGroup ==
  \E g \in 1..Len(custom_groups) :
    /\ runs < MaxRuns
    /\ pc' = "deleted"
    /\ custom_groups' = dict_del(custom_groups, custom_groups[g][1])
    /\ messages' = {"warning: group removed"}
    /\ runs' = runs + 1
    /\ available_regions' = get_unused_regions(custom_groups')
    /\ UNCHANGED <<df, region_name, lan_data, nuts2_data, trafikverket_data,
                   data, grouped_df, form_key, geo_vars, view_vars, load_vars>>

(* "Skapa 4 slumpmässiga grupper": create_random_groups() *)
CreateRandomGroups ==
  \E random_regions \in ShuffleOutcomes :
    \E variation \in [1..3 -> Variations] :
      /\ runs < MaxRuns
      /\ pc' = "randomized"
      /\ custom_groups' = create_random_groups(random_regions, variation)
      /\ messages' = {}
      /\ runs' = runs + 1
      /\ available_regions' = get_unused_regions(custom_groups')
      /\ UNCHANGED <<df, region_name, lan_data, nuts2_data, trafikverket_data,
                     data, grouped_df, form_key, geo_vars, view_vars, load_vars>>

NextGroups ==
  \/ SubmitNewGroup
  \/ UpdateGroup
  \/ DeleteGroup
  \/ CreateRandomGroups

SpecGroups ==
  InitGroups /\ [][NextGroups]_vars

(* create_trafikverket_regions(_input_gdf) is called on a boundary frame *)
InitGeo ==
  /\ pc = "start"
  /\ df = <<>>
  /\ region_name = <<>>
  /\ lan_data = <<>>
  /\ nuts2_data = <<>>
  /\ trafikverket_data = <<>>
  /\ messages = {}
  /\ data = <<>>
  /\ grouped_df = <<>>
  /\ custom_groups = <<>>
  /\ available_regions = <<>>
  /\ form_key = 0
  /\ runs = 0
  /\ gdf \in GeoDataFrames
  /\ trafikverket_gdf = EmptyGeoDataFrame
  /\ session = EmptySession
  /\ shown = NoDisplay
  /\ geojson = <<>>
  /\ nuts2_gdf = NoFrame

CreateTrafikverketRegions ==
  /\ pc = "start"
  /\ pc' = "done"
  /\ \E region_order \in IterationOrders(gdf) :
       LET r == create_trafikverket_regions(gdf, region_order)
       IN  /\ trafikverket_gdf' = r.gdf
           /\ messages' = r.messages
  /\ UNCHANGED <<df, region_name, lan_data, nuts2_data, trafikverket_data,
                 data, custom_groups, grouped_df, ui_vars, gdf, view_vars, load_vars>>

NextGeo ==
  CreateTrafikverketRegions

SpecGeo ==
  InitGeo /\ [][NextGeo]_vars


(* display_custom_groups_analysis(df, region_column, value_column, lan_gdf)
   is called, or create_custom_groups_map(data, gdf, custom_groups, ...)
   directly, on a processed table, a grouping and the county boundaries *)
AnalysisTables ==
  {<<>>,
   <<[region_name |-> <<"S","k","å","n","e">>, value |-> Num(5)]>>,
   <<[region_name |-> <<"N","o","r","r","b","o","t","t","e","n">>, value |-> Num(10)],
     [region_name |-> <<"S","k","å","n","e">>, value |-> NaN]>>,
   <<[region_name |-> <<"G","o","t","l","a","n","d">>, value |-> Num(7)],
     [region_name |-> <<"S","k","å","n","e">>, value |-> Num(5)],
     [region_name |-> <<"N","o","r","r","b","o","t","t","e","n">>, value |-> Num(10)]>>}

(* the county boundary frames tried: no feature, counties named as the base
   regions, a county named with ' län', a frame without 'name', and None *)
CountyFrames ==
  {[crs |-> "EPSG:4326", has_name |-> TRUE, rows |-> <<>>],
   [crs |-> "EPSG:4326", has_name |-> TRUE,
    rows |-> <<[name |-> StrCell(<<"S","k","å","n","e">>), geometry |-> {5}],
               [name |-> StrCell(<<"G","o","t","l","a","n","d">>), geometry |-> {2}],
               [name |-> StrCell(<<"N","o","r","r","b","o","t","t","e","n">>), geometry |-> {8}]>>],
   [crs |-> "EPSG:4326", has_name |-> TRUE,
    rows |-> <<[name |-> StrCell(<<"S","k","å","n","e"," ","l","ä","n">>), geometry |-> {5}],
               [name |-> StrCell(<<"G","o","t","l","a","n","d">>), geometry |-> {2}]>>],
   [crs |-> "EPSG:4326", has_name |-> FALSE,
    rows |-> <<[name |-> NaCell, geometry |-> {7}]>>],
   NoFrame}

InitAnalysis ==
  /\ pc = "start"
  /\ df = <<>>
  /\ region_name = <<>>
  /\ lan_data = <<>>
  /\ nuts2_data = <<>>
  /\ trafikverket_data = <<>>
  /\ messages = {}
  /\ data \in AnalysisTables
  /\ grouped_df = <<>>
  /\ custom_groups \in Groupings
  /\ available_regions = <<>>
  /\ form_key = 0
  /\ runs = 0
  /\ gdf \in CountyFrames
  /\ trafikverket_gdf = EmptyGeoDataFrame
  /\ session = EmptySession
  /\ shown = NoDisplay
  /\ geojson = <<>>
  /\ nuts2_gdf = NoFrame

(* create_custom_groups_map called with the arguments of its signature *)
CreateCustomGroupsMap ==
  /\ pc = "start"
  /\ gdf # NoFrame
  /\ LET r == create_custom_groups_map(data, gdf, custom_groups)
     IN  /\ shown' = [kind |-> "custom groups map", fig |-> r.fig]
         /\ messages' = r.messages
  /\ pc' = "mapped"
  /\ UNCHANGED <<df, region_name, lan_data, nuts2_data, trafikverket_data,
                 data, custom_groups, grouped_df, ui_vars, geo_vars, session, load_vars>>

(* display_custom_groups_analysis: pc is "raised" when an exception left
   the function, and shown.elements lists what was displayed until then *)
DisplayCustomGroupsAnalysis ==
  /\ pc = "start"
  /\ IF Len(custom_groups) = 0
     THEN /\ messages' = {"info: no custom groups"}
          /\ shown' = [kind |-> "analysis", elements |-> <<>>, fig |-> <<>>, table |-> <<>>]
          /\ pc' = "analysed"
          /\ UNCHANGED grouped_df
     ELSE LET grouped == create_custom_region_group(data, custom_groups)
          IN  /\ grouped_df' = grouped
              /\ IF Len(grouped) = 0
                 THEN /\ messages' = {"warning: no grouped data"}
                      /\ shown' = [kind |-> "analysis", elements |-> <<>>,
                                   fig |-> <<>>, table |-> <<>>]
                      /\ pc' = "analysed"
                 ELSE IF gdf # NoFrame
                        /\ ~(create_custom_groups_map_keywords
                               \subseteq create_custom_groups_map_parameters)
                 THEN /\ messages' = {}
                      /\ shown' = [kind |-> "analysis", elements |-> <<"map subheader">>,
                                   fig |-> <<>>, table |-> <<>>]
                      /\ pc' = "raised"
                 ELSE LET r == IF gdf # NoFrame
                               THEN create_custom_groups_map(data, gdf, custom_groups)
                               ELSE [fig |-> <<>>, messages |-> {}]
                          map_part ==
                            IF gdf = NoFrame THEN <<>>
                            ELSE <<"map subheader">>
                                 \o (IF Len(r.fig) > 0 THEN <<"map", "map download">> ELSE <<>>)
                                 \o <<"group information">>
                      IN  /\ messages' = r.messages
                          /\ shown' = [kind |-> "analysis",
                                       elements |-> map_part \o <<"comparison table",
                                                                  "csv download">>,
                                       fig |-> r.fig,
                                       table |-> sort_values_descending(grouped)]
                          /\ pc' = "analysed"
  /\ UNCHANGED <<df, region_name, lan_data, nuts2_data, trafikverket_data,
                 data, custom_groups, ui_vars, geo_vars, session, load_vars>>

NextAnalysis ==
  \/ CreateCustomGroupsMap
  \/ DisplayCustomGroupsAnalysis

SpecAnalysis ==
  InitAnalysis /\ [][NextAnalysis]_vars


(* _load_base_geojson() is called on a NUTS-2 source *)
InitLoad ==
  /\ pc = "start"
  /\ df = <<>>
  /\ region_name = <<>>
  /\ lan_data = <<>>
  /\ nuts2_data = <<>>
  /\ trafikverket_data = <<>>
  /\ messages = {}
  /\ data = <<>>
  /\ grouped_df = <<>>
  /\ custom_groups = <<>>
  /\ available_regions = <<>>
  /\ form_key = 0
  /\ runs = 0
  /\ gdf = NoFrame
  /\ trafikverket_gdf = EmptyGeoDataFrame
  /\ session = EmptySession
  /\ shown = NoDisplay
  /\ geojson \in NutsSources
  /\ nuts2_gdf = NoFrame

LoadBaseGeojson ==
  /\ pc = "start"
  /\ pc' = "loaded"
  /\ LET r == load_base_geojson(geojson)
     IN  /\ gdf' = r.lan_gdf
         /\ nuts2_gdf' = r.nuts2_gdf
         /\ messages' = r.messages
  /\ UNCHANGED <<df, region_name, lan_data, nuts2_data, trafikverket_data,
                 data, custom_groups, grouped_df, ui_vars, trafikverket_gdf,
                 view_vars, geojson>>

NextLoad ==
  LoadBaseGeojson

SpecLoad ==
  InitLoad /\ [][NextLoad]_vars


(* display_visualization is called on the tables process_data returned,
   as main_panel.show_visualization passes them on, with the boundary
   frames load_geojson returns *)
ShowRowUniverse ==
  {
    [region |-> StrCell(<<"0","1">>),
     value  |-> IntCell(100)],
    [region |-> StrCell(<<"K","a","l","m","a","r">>),
     value  |-> IntCell(20)],
    [region |-> IntCell(12),
     value  |-> StrCell(<<"4","0">>)],
    [region |-> StrCell(<<"A","t","l","a","n","t","i","s">>),
     value  |-> IntCell(5)]
  }

(* the county frame: Stockholm, Kalmar and Skåne *)
LanFrame ==
  [crs |-> "", has_name |-> TRUE,
   rows |-> <<[name |-> StrCell(<<"S","t","o","c","k","h","o","l","m">>), geometry |-> {1}],
              [name |-> StrCell(<<"K","a","l","m","a","r">>), geometry |-> {4}],
              [name |-> StrCell(<<"S","k","å","n","e">>), geometry |-> {5}]>>]

(* the NUTS-2 frames: as loaded from a source with NUTS_ID, a frame with
   names only, one whose first name is missing, and a frame of no feature *)
Nuts2Frames ==
  {load_base_geojson(
     <<[NUTS_ID |-> <<<<"S","E","1","1">>>>, NUTS_NAME |-> <<<<"S","t","o","c","k","h","o","l","m">>>>,
        NAME |-> <<>>, geometry |-> {11}],
       [NUTS_ID |-> <<<<"S","E","2","1">>>>, NUTS_NAME |-> <<<<"S","m","å","l","a","n","d"," ","m","e","d"," ","ö","a","r","n","a">>>>,
        NAME |-> <<>>, geometry |-> {21}]>>).nuts2_gdf,
   [crs |-> "", has_name |-> TRUE,
    rows |-> <<[name |-> StrCell(<<"S","t","o","c","k","h","o","l","m">>), geometry |-> {11}],
               [name |-> StrCell(<<"S","y","d","s","v","e","r","i","g","e">>), geometry |-> {22}]>>],
   [crs |-> "", has_name |-> TRUE,
    rows |-> <<[name |-> NaCell, geometry |-> {21}],
               [name |-> StrCell(<<"S","t","o","c","k","h","o","l","m">>), geometry |-> {11}]>>],
   [crs |-> "", has_name |-> FALSE, rows |-> <<>>]}

InitShow ==
  /\ pc = "start"
  /\ df \in SeqUpTo(ShowRowUniverse, MaxRows)
  /\ region_name = <<>>
  /\ lan_data = <<>>
  /\ nuts2_data = <<>>
  /\ trafikverket_data = <<>>
  /\ messages = {}
  /\ data = <<>>
  /\ grouped_df = <<>>
  /\ custom_groups = <<>>
  /\ available_regions = <<>>
  /\ form_key = 0
  /\ runs = 0
  /\ gdf = LanFrame
  /\ trafikverket_gdf
       = create_trafikverket_regions(LanFrame, SortKeys(Values(TRAFIKVERKET_REGIONS))).gdf
  /\ session = EmptySession
  /\ shown = NoDisplay
  /\ geojson = <<>>
  /\ nuts2_gdf \in Nuts2Frames

(* display_visualization on the three tables; the tables are the caller's
   objects, so what create_matplotlib_map writes into one stays in it *)
DisplayVisualization ==
  /\ pc = "done"
  /\ pc' = "displayed"
  /\ \E map_type \in MAP_TYPES :
       LET r == display_visualization(lan_data, nuts2_data, trafikverket_data,
                                      gdf, nuts2_gdf, trafikverket_gdf, map_type)
       IN  /\ lan_data' = r.lan_data
           /\ nuts2_data' = r.nuts2_data
           /\ trafikverket_data' = r.trafikverket_data
           /\ shown' = r.shown
           /\ messages' = r.messages
  /\ UNCHANGED <<df, region_name, data, custom_groups, grouped_df, ui_vars, geo_vars,
                 session, load_vars>>

NextShow ==
  \/ ProcessData
  \/ DisplayVisualization

SpecShow ==
  InitShow /\ [][NextShow]_vars


(* the modular user interface: the sidebar is rendered, with or without
   "Generera visualisering" pressed, and the main panel shows the
   visualization of the session; after construction the session is empty *)
InitSidebar ==
  /\ pc = "start"
  /\ df \in SeqUpTo(ShowRowUniverse, MaxRows)
  /\ region_name = <<>>
  /\ lan_data = <<>>
  /\ nuts2_data = <<>>
  /\ trafikverket_data = <<>>
  /\ messages = {}
  /\ data = <<>>
  /\ grouped_df = <<>>
  /\ custom_groups = <<>>
  /\ available_regions = <<>>
  /\ form_key = 0
  /\ runs = 0
  /\ gdf = LanFrame
  /\ trafikverket_gdf
       = create_trafikverket_regions(LanFrame, SortKeys(Values(TRAFIKVERKET_REGIONS))).gdf
  /\ session = EmptySession
  /\ shown = NoDisplay
  /\ geojson = <<>>
  /\ nuts2_gdf \in {f \in Nuts2Frames : has_nuts_id(f)}

(* render_visualization_options runs on the table; pc tells how it ended *)
RenderVisualizationOptions ==
  \E pressed \in BOOLEAN :
    \E settings \in SidebarSettings :
      LET r == render_visualization_options(df, session, settings, pressed)
      IN  /\ session' = r.session
          /\ messages' = r.messages
          /\ shown' = [kind |-> "sidebar", pressed |-> pressed, settings |-> settings]
          /\ pc' = CASE r.returned = "raised" -> "sidebar raised"
                     [] r.returned = "True"   -> "sidebar returned True"
                     [] OTHER                 -> "sidebar returned False"
          /\ UNCHANGED <<df, region_name, lan_data, nuts2_data, trafikverket_data,
                         data, custom_groups, grouped_df, ui_vars, geo_vars, load_vars>>

(* show_visualization runs on the session *)
ShowVisualization ==
  LET r == show_visualization(session, gdf, nuts2_gdf, trafikverket_gdf)
  IN  /\ session' = r.session
      /\ shown' = r.shown
      /\ messages' = r.messages
      /\ pc' = IF r.raised THEN "panel raised" ELSE "panel shown"
      /\ UNCHANGED <<df, region_name, lan_data, nuts2_data, trafikverket_data,
                     data, custom_groups, grouped_df, ui_vars, geo_vars, load_vars>>

NextSidebar ==
  \/ RenderVisualizationOptions
  \/ ShowVisualization

SpecSidebar ==
  InitSidebar /\ [][NextSidebar]_vars


(* the application app.py: every action is one run of the script, on the
   table the sidebar holds at that run; a new session is empty *)
AppTables ==
  {<<>>,
   <<[region |-> StrCell(<<"0","1">>), value |-> StrCell(<<"a","b","c">>)]>>,
   <<[region |-> StrCell(<<"0","1">>), value |-> IntCell(100)]>>,
   <<[region |-> StrCell(<<"K","a","l","m","a","r">>), value |-> IntCell(20)],
     [region |-> IntCell(12), value |-> StrCell(<<"4","0">>)]>>,
   <<[region |-> StrCell(<<"A","t","l","a","n","t","i","s">>), value |-> IntCell(5)]>>}

InitApp ==
  /\ pc = "start"
  /\ df \in AppTables
  /\ region_name = <<>>
  /\ lan_data = <<>>
  /\ nuts2_data = <<>>
  /\ trafikverket_data = <<>>
  /\ messages = {}
  /\ data = <<>>
  /\ grouped_df = <<>>
  /\ custom_groups = <<>>
  /\ available_regions = <<>>
  /\ form_key = 0
  /\ runs = 0
  /\ gdf = LanFrame
  /\ trafikverket_gdf = EmptyGeoDataFrame
  /\ session = EmptySession
  /\ shown = NoDisplay
  /\ geojson = <<>>
  /\ nuts2_gdf \in Nuts2Frames

(* a run of the script; pc tells whether "Generera visualisering" was
   pressed in it and whether its results were stored *)
Main ==
  \E table \in AppTables :
    \E pressed \in BOOLEAN :
      \E settings \in SidebarSettings :
        LET r == main(table, session, settings, pressed, gdf, nuts2_gdf)
        IN  /\ df' = table
            /\ session' = r.session
            /\ shown' = r.shown
            /\ messages' = r.messages
            /\ pc' = IF ~pressed THEN "rerun"
                     ELSE IF r.stored THEN "generated"
                     ELSE "generate failed"
            /\ UNCHANGED <<region_name, lan_data, nuts2_data, trafikverket_data,
                           data, custom_groups, grouped_df, ui_vars, geo_vars, load_vars>>

NextApp ==
  Main

SpecApp ==
  InitApp /\ [][NextApp]_vars


(* ------------------------- notions of the claims ------------------------ *)

BaseRegionCodes ==
  {LAN_MAPPING[i][1] : i \in 1..Len(LAN_MAPPING)}

BaseRegionNames ==
  {LAN_MAPPING[i][2] : i \in 1..Len(LAN_MAPPING)}

(* the name that belongs to a code *)
NameOfCode(c) ==
  LAN_MAPPING[CHOOSE i \in 1..Len(LAN_MAPPING) : LAN_MAPPING[i][1] = c][2]

(* v is n in some mix of upper and lower case *)
IsCaseVariant(v, n) ==
  /\ Len(v) = Len(n)
  /\ \A k \in 1..Len(n) : v[k] = lower_char(n[k]) \/ v[k] = upper_char(n[k])

(* the identifier of row i as text *)
Supplied(i) ==
  astype_str(df[i].region)

(* a single digit is read with a leading zero *)
ZeroPadded(s) ==
  IF Len(s) = 1 /\ Contains(DIGITS, s[1]) THEN <<"0", s[1]>> ELSE s

(* the identifier matches a code, a name, or a name up to case *)
MatchesBaseRegion(s) ==
  \/ ZeroPadded(s) \in BaseRegionCodes
  \/ \E n \in BaseRegionNames : IsCaseVariant(ZeroPadded(s), n)

UnresolvedRow(r) ==
  ~MatchesBaseRegion(astype_str(r.region))

(* the cell holds a number: an int, or text of an optional sign and digits *)
IsNumberCell(cell) ==
  \/ "int" \in DOMAIN cell
  \/ /\ "str" \in DOMAIN cell
     /\ LET s == cell.str
            d == IF Len(s) > 0 /\ s[1] = "-" THEN Tail(s) ELSE s
        IN  Len(d) > 0 /\ \A k \in 1..Len(d) : Contains(DIGITS, d[k])

(* the number a number cell holds *)
NumberOf(cell) ==
  IF "int" \in DOMAIN cell THEN cell.int
  ELSE IF cell.str[1] = "-" THEN 0 - int_of_digits(Tail(cell.str))
  ELSE int_of_digits(cell.str)

NonNumericRow(r) ==
  ~IsNumberCell(r.value)

GroupsOf(table) ==
  {table[k].group : k \in 1..Len(table)}

(* the table as a set of (group, mean) pairs *)
RowsOf(table) ==
  {table[k] : k \in 1..Len(table)}

(* the frame without its i-th row *)
WithoutRow(frame, i) ==
  SubSeq(frame, 1, i - 1) \o SubSeq(frame, i + 1, Len(frame))

(* the sum of f[x] over the x in S *)
RECURSIVE SumOver(_, _)
SumOver(S, f) ==
  IF S = {} THEN 0
  ELSE LET x == CHOOSE y \in S : TRUE
       IN  f[x] + SumOver(S \ {x}, f)

(* ------------------------------- C1 ------------------------------------- *)

(* C1: a row whose identifier matches no base-region code or name (after
   single-digit padding, exact and case-insensitive matching) contributes to
   none of the three tables process_data returns, and none of them has a
   group labelled with that identifier. *)
C1_UnresolvedRowsExcluded ==
  pc = "done" =>
    \A i \in 1..Len(df) :
      UnresolvedRow(df[i]) =>
        /\ Supplied(i) \notin GroupsOf(lan_data)
        /\ Supplied(i) \notin GroupsOf(nuts2_data)
        /\ Supplied(i) \notin GroupsOf(trafikverket_data)
        /\ LET without == process_data(WithoutRow(df, i))
           IN  /\ without.lan_data = lan_data
               /\ without.nuts2_data = nuts2_data
               /\ without.trafikverket_data = trafikverket_data

(* ------------------------------- C2 ------------------------------------- *)

(* C2: when no row of the table resolves to a base region, all three
   returned tables are empty, also when the rows carry numeric values. *)
C2_NothingResolvedAllEmpty ==
  (pc = "done" /\ \A i \in 1..Len(df) : UnresolvedRow(df[i])) =>
    /\ lan_data = <<>>
    /\ nuts2_data = <<>>
    /\ trafikverket_data = <<>>

(* ------------------------------- C3 ------------------------------------- *)

(* C3: for an identifier that resolves to no base region, region_name is
   the identifier exactly as supplied, single digits included. *)
C3_UnresolvedKeptVerbatim ==
  pc = "done" =>
    \A i \in 1..Len(df) :
      ("str" \in DOMAIN df[i].region /\ UnresolvedRow(df[i])) =>
        region_name[i] = df[i].region.str

(* ------------------------------- C4 ------------------------------------- *)

(* C4: every code resolves to its own name; a code that starts with "0",
   given without that zero, resolves like the code; a two-digit identifier
   is never padded. *)
C4_CodesAndStrippedCodes ==
  pc = "done" =>
    \A i \in 1..Len(df) :
      LET s == Supplied(i)
      IN  /\ s \in BaseRegionCodes => region_name[i] = NameOfCode(s)
          /\ (Len(s) = 1 /\ <<"0", s[1]>> \in BaseRegionCodes) =>
               region_name[i] = NameOfCode(<<"0", s[1]>>)
          /\ (Len(s) = 2 /\ s \notin BaseRegionCodes /\ Contains(DIGITS, s[1])
                /\ Contains(DIGITS, s[2])) =>
               region_name[i] = s

(* a code was given without its leading zero and resolved to a county *)
C4_Witness ==
  /\ pc = "done"
  /\ \E i \in 1..Len(df) :
       /\ Len(Supplied(i)) = 1
       /\ region_name[i] \in BaseRegionNames

(* ------------------------------- C5 ------------------------------------- *)

(* C5: every upper/lower-case variant of a base-region name resolves to the
   canonical name. *)
C5_CaseInsensitiveNames ==
  pc = "done" =>
    \A i \in 1..Len(df) :
      \A n \in BaseRegionNames :
        IsCaseVariant(Supplied(i), n) => region_name[i] = n

(* a name in another case than the canonical one was resolved *)
C5_Witness ==
  /\ pc = "done"
  /\ \E i \in 1..Len(df) :
       /\ Supplied(i) \notin BaseRegionNames
       /\ \E n \in BaseRegionNames : IsCaseVariant(Supplied(i), n) /\ region_name[i] = n

(* ------------------------------- C6 ------------------------------------- *)

(* the base regions a partition, given as its items, puts in group g *)
MembersOf(partition, g) ==
  {n \in BaseRegionNames : \E i \in 1..Len(partition) : partition[i] = <<n, g>>}

(* the partition is total and single-valued over the base regions, with
   the given number of groups, whose sizes sum to the number of regions *)
IsPartitionOfBaseRegions(partition, groups) ==
  /\ Keys(partition) = BaseRegionNames
  /\ Len(partition) = Cardinality(BaseRegionNames)
  /\ Cardinality(Values(partition)) = groups
  /\ \A n \in BaseRegionNames :
       Cardinality({g \in Values(partition) : n \in MembersOf(partition, g)}) = 1
  /\ SumOver(Values(partition),
             [g \in Values(partition) |-> Cardinality(MembersOf(partition, g))])
       = Cardinality(BaseRegionNames)

(* the reference tables: 21 base regions, each code and name once, and
   two partitions of them in 8 and in 6 groups *)
TaxonomyIsPartitioned ==
  /\ Cardinality(BaseRegionNames) = 21
  /\ Cardinality(BaseRegionCodes) = 21
  /\ Len(LAN_MAPPING) = 21
  /\ IsPartitionOfBaseRegions(NUTS2_MAPPING, 8)
  /\ IsPartitionOfBaseRegions(TRAFIKVERKET_REGIONS, 6)

(* C6: there are 21 base regions; NUTS2_MAPPING and TRAFIKVERKET_REGIONS
   have exactly their names as keys, each once, with 8 and 6 group labels,
   and the group sizes of each sum to 21; so every resolved row with a
   number is aggregated into one group of each partition. *)
C6_PartitionsTotal ==
  /\ TaxonomyIsPartitioned
  /\ pc = "done" =>
       \A i \in 1..Len(df) :
         (region_name[i] \in BaseRegionNames /\ IsNumberCell(df[i].value)) =>
           /\ \E g \in Values(NUTS2_MAPPING) :
                region_name[i] \in MembersOf(NUTS2_MAPPING, g) /\ g \in GroupsOf(nuts2_data)
           /\ \E g \in Values(TRAFIKVERKET_REGIONS) :
                /\ region_name[i] \in MembersOf(TRAFIKVERKET_REGIONS, g)
                /\ g \in GroupsOf(trafikverket_data)

(* a resolved row was aggregated into a NUTS-2 and a transport group *)
C6_Witness ==
  /\ pc = "done"
  /\ \E i \in 1..Len(df) : region_name[i] \in BaseRegionNames
  /\ nuts2_data # <<>>
  /\ trafikverket_data # <<>>

(* ------------------------------- C7 ------------------------------------- *)

(* the mean of the table row is the sum of the numbers of the rows in
   `members` over their count *)
IsMeanOf(row, members) ==
  /\ members # {}
  /\ ~row.value.isna
  /\ row.value.num * Cardinality(members)
       = row.value.den * SumOver(members, [i \in members |-> NumberOf(df[i].value)])

(* the rows of df holding a number whose label under a partition is g *)
RowsLabelled(label, g) ==
  {i \in 1..Len(df) : IsNumberCell(df[i].value) /\ label[i] = <<g>>}

(* the group of each row, as an option, in the three partitions: its
   resolved name, that name's NUTS-2 region, and the transport region of
   that name read without ' län' *)
CountyLabel ==
  [i \in 1..Len(df) |-> <<region_name[i]>>]

Nuts2Label ==
  [i \in 1..Len(df) |->
    IF \E k \in 1..Len(NUTS2_MAPPING) : NUTS2_MAPPING[k][1] = region_name[i]
    THEN <<NUTS2_MAPPING[CHOOSE k \in 1..Len(NUTS2_MAPPING) :
                           NUTS2_MAPPING[k][1] = region_name[i]][2]>>
    ELSE <<>>]

TransportLabel ==
  [i \in 1..Len(df) |->
    IF \E k \in 1..Len(TRAFIKVERKET_REGIONS) :
         TRAFIKVERKET_REGIONS[k][1] = remove_all(region_name[i], LAN_SUFFIX)
    THEN <<TRAFIKVERKET_REGIONS[CHOOSE k \in 1..Len(TRAFIKVERKET_REGIONS) :
             TRAFIKVERKET_REGIONS[k][1] = remove_all(region_name[i], LAN_SUFFIX)][2]>>
    ELSE <<>>]

ExampleTable ==
  <<[region |-> StrCell(<<"0","1">>), value |-> IntCell(100)],
    [region |-> StrCell(<<"1">>), value |-> IntCell(300)],
    [region |-> StrCell(<<"S","t","o","c","k","h","o","l","m">>), value |-> IntCell(200)]>>

(* C7: in each of the three tables, the mean of a group is the sum of the
   values of the rows labelled with that group over the number of those
   rows, rows without a number left out; "01"=100, "1"=300, "Stockholm"=200
   give the one county group Stockholm with mean 200. *)
C7_MeanIsSumOverCount ==
  pc = "done" =>
    /\ \A k \in 1..Len(lan_data) :
         IsMeanOf(lan_data[k], RowsLabelled(CountyLabel, lan_data[k].group))
    /\ \A k \in 1..Len(nuts2_data) :
         IsMeanOf(nuts2_data[k], RowsLabelled(Nuts2Label, nuts2_data[k].group))
    /\ \A k \in 1..Len(trafikverket_data) :
         IsMeanOf(trafikverket_data[k],
                  RowsLabelled(TransportLabel, trafikverket_data[k].group))
    /\ df = ExampleTable =>
         /\ Len(lan_data) = 1
         /\ lan_data[1].group = <<"S","t","o","c","k","h","o","l","m">>
         /\ lan_data[1].value = [isna |-> FALSE, num |-> 200, den |-> 1]

(* the example table was aggregated into a group of three rows *)
C7_Witness ==
  /\ pc = "done"
  /\ df = ExampleTable
  /\ Len(lan_data) = 1
  /\ Cardinality(RowsLabelled(CountyLabel, lan_data[1].group)) = 3

(* ------------------------------- C8 ------------------------------------- *)

(* the groups each row of a one-row table is assigned to, per table *)
AssignedGroups(r) ==
  LET one == process_data(<<[region |-> r.region, value |-> IntCell(0)]>>)
  IN  [lan   |-> GroupsOf(one.lan_data),
       nuts2 |-> GroupsOf(one.nuts2_data),
       tv    |-> GroupsOf(one.trafikverket_data)]

(* the groups whose row differs between two tables *)
ChangedGroups(before, after) ==
  {g \in GroupsOf(before) \cup GroupsOf(after) :
     {x \in RowsOf(before) : x.group = g} # {x \in RowsOf(after) : x.group = g}}

(* every group of the table before is in the table after, with its mean *)
MeansKept(before, after) ==
  RowsOf(before) \subseteq RowsOf(after)

(* C8: adding (or, read backwards, removing) a row that is unresolved or
   has a non-numeric value leaves the mean of every group in every table
   unchanged, and adding any row changes only the means of the groups that
   row is assigned to. *)
C8_RowLocalAggregation ==
  pc = "done" =>
    \A r \in RowUniverse :
      LET after == process_data(Append(df, r))
      IN  /\ (UnresolvedRow(r) \/ NonNumericRow(r)) =>
                /\ MeansKept(lan_data, after.lan_data)
                /\ MeansKept(nuts2_data, after.nuts2_data)
                /\ MeansKept(trafikverket_data, after.trafikverket_data)
          /\ ChangedGroups(lan_data, after.lan_data) \subseteq AssignedGroups(r).lan
          /\ ChangedGroups(nuts2_data, after.nuts2_data) \subseteq AssignedGroups(r).nuts2
          /\ ChangedGroups(trafikverket_data, after.trafikverket_data)
               \subseteq AssignedGroups(r).tv

(* ------------------------------- C9 ------------------------------------- *)

(* the rows of the table whose value is a number *)
NumericRows ==
  SelectSeq(df, LAMBDA r : IsNumberCell(r.value))

(* C9: a row whose value is no number is left out of every table: the
   tables are those of the table without such rows, no mean is NaN, the
   user is warned, and the call returns. *)
C9_NonNumericIsMissing ==
  pc = "done" =>
    /\ LET numeric == process_data(NumericRows)
       IN  /\ lan_data = numeric.lan_data
           /\ nuts2_data = numeric.nuts2_data
           /\ trafikverket_data = numeric.trafikverket_data
    /\ \A row \in RowsOf(lan_data) \cup RowsOf(nuts2_data) \cup RowsOf(trafikverket_data) :
         ~row.value.isna
    /\ \A i \in 1..Len(df) :
         IsNumberCell(df[i].value) => region_name[i] \in GroupsOf(lan_data)
    /\ ("warning: values set to NaN" \in messages) <=> (NumericRows # df)

(* a table with a non-numeric row and a numeric row was aggregated *)
C9_Witness ==
  /\ pc = "done"
  /\ NumericRows # df
  /\ lan_data # <<>>
  /\ "warning: values set to NaN" \in messages

(* ------------------------------- C10 ------------------------------------ *)

(* the group has a row of `data` with a value that is not missing *)
HasContribution(regions) ==
  \E j \in 1..Len(data) :
    /\ ~data[j].value.isna
    /\ \E k \in 1..Len(regions) : regions[k] = data[j].region_name

(* C10: the custom aggregate has exactly one row for each group with at
   least one contributing row whose value is not missing, and no row, in
   particular no NaN row, for any other group. *)
C10_OneRowPerNonEmptyGroup ==
  pc = "done" =>
    /\ \A g \in 1..Len(custom_groups) :
         Cardinality({k \in 1..Len(grouped_df) :
                        grouped_df[k].custom_group = custom_groups[g][1]})
           = IF HasContribution(custom_groups[g][2]) THEN 1 ELSE 0
    /\ \A k \in 1..Len(grouped_df) : ~grouped_df[k].value.isna

(* ------------------------------- C11 ------------------------------------ *)

(* the first row of df, among those holding a number, labelled g *)
FirstRow(label, g) ==
  CHOOSE i \in RowsLabelled(label, g) : \A j \in RowsLabelled(label, g) : i <= j

(* the rows of the table follow the order in which their groups are first
   seen in df *)
InFirstSeenOrder(table, label) ==
  \A a, b \in 1..Len(table) :
    a < b => FirstRow(label, table[a].group) < FirstRow(label, table[b].group)

(* the rows of the table are in strictly ascending order of their labels *)
InAscendingLabelOrder(table) ==
  \A a, b \in 1..Len(table) :
    a < b => StrLess(table[a].group, table[b].group)

(* C11 as stated: in each of the three tables, the rows appear in the
   order in which their group labels are first seen in the input rows. *)
C11_FirstSeenOrder ==
  pc = "done" =>
    /\ InFirstSeenOrder(lan_data, CountyLabel)
    /\ InFirstSeenOrder(nuts2_data, Nuts2Label)
    /\ InFirstSeenOrder(trafikverket_data, TransportLabel)

(* C11: in each of the three tables, the rows appear in ascending order of
   their group labels (compared character by character by code point),
   whatever the order of the input rows. *)
C11_AscendingLabelOrder ==
  pc = "done" =>
    /\ InAscendingLabelOrder(lan_data)
    /\ InAscendingLabelOrder(nuts2_data)
    /\ InAscendingLabelOrder(trafikverket_data)

(* a table was aggregated whose groups are first seen in another order
   than the order of their labels *)
C11_Witness ==
  /\ pc = "done"
  /\ Len(lan_data) >= 2
  /\ ~InFirstSeenOrder(lan_data, CountyLabel)
  /\ ~InFirstSeenOrder(trafikverket_data, TransportLabel)

(* ------------------------------- C12 ------------------------------------ *)

(* the position of the group labelled name in the grouping *)
GroupIndex(name) ==
  CHOOSE g \in 1..Len(custom_groups) : custom_groups[g][1] = name

(* the regions configured for the group labelled name *)
ConfiguredRegions(name) ==
  custom_groups[GroupIndex(name)][2]

(* the rows of data whose region name is in the regions list *)
RowsIn(regions) ==
  {j \in 1..Len(data) : \E k \in 1..Len(regions) : regions[k] = data[j].region_name}

(* the rows of RowsIn(regions) whose value is not missing *)
ValuedRowsIn(regions) ==
  {j \in RowsIn(regions) : ~data[j].value.isna}

(* the regions named in some group of the grouping *)
GroupedRegions ==
  UNION {{custom_groups[g][2][k] : k \in 1..Len(custom_groups[g][2])} :
           g \in 1..Len(custom_groups)}

ExampleData ==
  <<[region_name |-> <<"N","o","r","r","b","o","t","t","e","n">>, value |-> Num(10)],
    [region_name |-> <<"V","ä","s","t","e","r","b","o","t","t","e","n">>, value |-> Num(20)],
    [region_name |-> <<"S","k","å","n","e">>, value |-> Num(5)]>>

ExampleGrouping ==
  << << <<"N","o","r","r","a">>,
        << <<"N","o","r","r","b","o","t","t","e","n">>,
           <<"V","ä","s","t","e","r","b","o","t","t","e","n">> >> >>,
     << <<"S","ö","d","r","a">>, << <<"S","k","å","n","e">> >> >> >>

(* C12: each emitted group's mean is the sum over the count of the values
   of exactly the rows whose region name is in the group's configured list
   (values that are missing left out); the rows of regions in no group can
   be removed without changing the result; the groups are emitted in the
   order of the grouping; Norra = [Norrbotten, Västerbotten], Södra =
   [Skåne] with the values 10, 20, 5 give Norra 15 and Södra 5. *)
C12_CustomMeanOverMembers ==
  pc = "done" =>
    /\ \A k \in 1..Len(grouped_df) :
         LET valued == ValuedRowsIn(ConfiguredRegions(grouped_df[k].custom_group))
             v      == grouped_df[k].value
         IN  /\ \E g \in 1..Len(custom_groups) :
                  custom_groups[g][1] = grouped_df[k].custom_group
             /\ v.isna <=> valued = {}
             /\ ~v.isna =>
                  v.num * Cardinality(valued)
                    = v.den * SumOver(valued, [j \in valued |-> data[j].value.num])
    /\ grouped_df = create_custom_region_group(
                      SelectSeq(data, LAMBDA r : r.region_name \in GroupedRegions),
                      custom_groups)
    /\ \A a, b \in 1..Len(grouped_df) :
         a < b => GroupIndex(grouped_df[a].custom_group)
                    < GroupIndex(grouped_df[b].custom_group)
    /\ (data = ExampleData /\ custom_groups = ExampleGrouping) =>
         /\ Len(grouped_df) = 2
         /\ grouped_df[1].custom_group = <<"N","o","r","r","a">>
         /\ grouped_df[1].value = [isna |-> FALSE, num |-> 15, den |-> 1]
         /\ grouped_df[2].custom_group = <<"S","ö","d","r","a">>
         /\ grouped_df[2].value = [isna |-> FALSE, num |-> 5, den |-> 1]

(* a group with two valued rows was emitted from data that also has a
   row of a region in no group *)
C12_Witness ==
  /\ pc = "done"
  /\ Len(grouped_df) >= 1
  /\ \E j \in 1..Len(data) : data[j].region_name \notin GroupedRegions
  /\ \E k \in 1..Len(grouped_df) :
       Cardinality(ValuedRowsIn(ConfiguredRegions(grouped_df[k].custom_group))) = 2

(* ------------------------------- C13 ------------------------------------ *)

(* C13: in each emitted row, region_count is the number of regions
   configured for the group and regions lists all of them, joined with
   ", ", however many of them have rows in the data. *)
C13_RegionCountIsConfigured ==
  pc = "done" =>
    \A k \in 1..Len(grouped_df) :
      LET regions == ConfiguredRegions(grouped_df[k].custom_group)
      IN  /\ grouped_df[k].region_count = Len(regions)
          /\ grouped_df[k].regions = join(regions)

(* a group of two configured regions was emitted with rows of only one *)
C13_Witness ==
  /\ pc = "done"
  /\ \E k \in 1..Len(grouped_df) :
       LET regions == ConfiguredRegions(grouped_df[k].custom_group)
       IN  /\ Len(regions) = 2
           /\ Cardinality({data[j].region_name : j \in RowsIn(regions)}) = 1
           /\ grouped_df[k].region_count = 2

(* ------------------------------- C14 ------------------------------------ *)

(* the grouping with the names that are no base region taken out *)
WithoutStrangers(groups) ==
  [g \in 1..Len(groups) |->
     <<groups[g][1], SelectSeq(groups[g][2], LAMBDA n : n \in BaseRegionNames)>>]

(* C14: get_unused_regions returns exactly the base-region names that are
   in no group, each once, in ascending order of the names; all 21 for the
   empty grouping; and the same list when the names that are no base
   region are taken out of the groups. *)
C14_UnusedRegions ==
  pc = "done" =>
    /\ {available_regions[i] : i \in 1..Len(available_regions)}
         = BaseRegionNames \ GroupedRegions
    /\ Len(available_regions) = Cardinality(BaseRegionNames \ GroupedRegions)
    /\ \A a, b \in 1..Len(available_regions) :
         a < b => StrLess(available_regions[a], available_regions[b])
    /\ custom_groups = <<>> => Len(available_regions) = 21
    /\ available_regions = get_unused_regions(WithoutStrangers(custom_groups))

(* the unused regions of a grouping that names both base regions and a
   name that is no base region were computed *)
C14_Witness ==
  /\ pc = "done"
  /\ GroupedRegions \cap BaseRegionNames # {}
  /\ GroupedRegions \ BaseRegionNames # {}
  /\ Len(available_regions) < 21

(* ------------------------------- C15 ------------------------------------ *)

(* the groups of the grouping other than the one labelled L, in order *)
OtherGroups(groups, L) ==
  SelectSeq(groups, LAMBDA item : item[1] # L)

(* C15: in every state of the grouping UI and for every label L and
   selection R that can be submitted there: if L and R are not empty, the
   grouping then has exactly one group labelled L, with exactly the regions
   R, and its other groups are as before; otherwise the grouping is as
   before. *)
C15_DefineGroupLastWriteWins ==
  \A L \in GroupNameInputs :
    \A R \in Selections(available_regions) :
      LET after == submit_new_group(custom_groups, L, R)
      IN  IF L # <<>> /\ R # <<>>
          THEN /\ Cardinality({i \in 1..Len(after) : after[i][1] = L}) = 1
               /\ Lookup(after, L) = R
               /\ OtherGroups(after, L) = OtherGroups(custom_groups, L)
          ELSE after = custom_groups

(* two groups were submitted and the second replaced the first *)
C15_Witness ==
  /\ pc = "added"
  /\ form_key = 2
  /\ runs = 2
  /\ Len(custom_groups) = 1

(* ------------------------------- C16 ------------------------------------ *)

(* the regions of the k-th group, as a set *)
RegionsOfGroup(k) ==
  {custom_groups[k][2][i] : i \in 1..Len(custom_groups[k][2])}

(* C16: after create_random_groups the grouping has exactly the four
   groups Norra, Södra, Östra, Västra, and every one of the 21 base regions
   is in exactly one of them, once. *)
C16_RandomGroupsPartition ==
  pc = "randomized" =>
    /\ [k \in 1..Len(custom_groups) |-> custom_groups[k][1]] = group_names
    /\ Len(group_names) = 4
    /\ Cardinality(BaseRegionNames) = 21
    /\ \A n \in BaseRegionNames :
         Cardinality({k \in 1..4 : n \in RegionsOfGroup(k)}) = 1
    /\ \A k \in 1..4 :
         /\ RegionsOfGroup(k) \subseteq BaseRegionNames
         /\ Cardinality(RegionsOfGroup(k)) = Len(custom_groups[k][2])

(* random groups replaced a grouping the user had defined *)
C16_Witness ==
  /\ pc = "randomized"
  /\ form_key = 1
  /\ Len(custom_groups) = 4

(* ------------------------------- C17 ------------------------------------ *)

(* the number of regions of the k-th group *)
GroupSize(k) ==
  Len(custom_groups[k][2])

(* C17 as stated: after create_random_groups every group has 4, 5 or 6
   regions. *)
C17_NearEqualSizes ==
  pc = "randomized" =>
    \A k \in 1..Len(custom_groups) : GroupSize(k) \in 4..6

(* C17: after create_random_groups each of the first three groups has 4, 5
   or 6 regions, and the last group has the remaining ones, between 3 and
   9, so that the sizes sum to 21. *)
C17_SizesWithRemainder ==
  pc = "randomized" =>
    /\ \A k \in 1..3 : GroupSize(k) \in 4..6
    /\ GroupSize(4) \in 3..9
    /\ GroupSize(1) + GroupSize(2) + GroupSize(3) + GroupSize(4) = 21

(* random groups were created whose last group has 9 regions *)
C17_Witness ==
  /\ pc = "randomized"
  /\ GroupSize(4) = 9

(* ------------------------------- C18 ------------------------------------ *)

(* the name without a ' län' at its end *)
StripLanSuffix(s) ==
  IF Len(s) >= Len(LAN_SUFFIX) /\ SubSeq(s, Len(s) - Len(LAN_SUFFIX) + 1, Len(s)) = LAN_SUFFIX
  THEN SubSeq(s, 1, Len(s) - Len(LAN_SUFFIX))
  ELSE s

(* the features of gdf whose name, ' län' stripped, is a base region that
   TRAFIKVERKET_REGIONS assigns to group g *)
SourceFeatures(g) ==
  {i \in 1..Len(gdf.rows) :
     /\ "str" \in DOMAIN gdf.rows[i].name
     /\ StripLanSuffix(gdf.rows[i].name.str) \in MembersOf(TRAFIKVERKET_REGIONS, g)}

(* the rows of the merge output for group g *)
OutputRows(g) ==
  {k \in 1..Len(trafikverket_gdf.rows) : trafikverket_gdf.rows[k].name = g}

(* C18: for each transport group with source features the merge outputs
   one row, whose geometry is the union of the geometries of exactly the
   features whose name, ' län' stripped, is a base region of that group,
   and whose id is the group's id in TRAFIKVERKET_IDS; every row is the
   row of a transport group, and no feature is a source of two groups. *)
C18_MergeIsUnionOfMembers ==
  (pc = "done" /\ gdf.has_name) =>
    /\ \A g \in Values(TRAFIKVERKET_REGIONS) :
         /\ SourceFeatures(g) # {} => Cardinality(OutputRows(g)) = 1
         /\ \A k \in OutputRows(g) :
              /\ trafikverket_gdf.rows[k].geometry
                   = UNION {gdf.rows[i].geometry : i \in SourceFeatures(g)}
              /\ trafikverket_gdf.rows[k].id = Lookup(TRAFIKVERKET_IDS, g)
    /\ \A k \in 1..Len(trafikverket_gdf.rows) :
         trafikverket_gdf.rows[k].name \in Values(TRAFIKVERKET_REGIONS)
    /\ \A i \in 1..Len(gdf.rows) :
         Cardinality({g \in Values(TRAFIKVERKET_REGIONS) : i \in SourceFeatures(g)}) <= 1

(* a group was merged from two features and another from a feature named
   with ' län' *)
C18_Witness ==
  /\ pc = "done"
  /\ \E k \in 1..Len(trafikverket_gdf.rows) :
       Cardinality(SourceFeatures(trafikverket_gdf.rows[k].name)) = 2
  /\ \E k \in 1..Len(trafikverket_gdf.rows) :
       \E i \in SourceFeatures(trafikverket_gdf.rows[k].name) :
         has_substring(gdf.rows[i].name.str, LAN_SUFFIX)

(* ------------------------------- C19 ------------------------------------ *)

(* C19: a group without source features has no row in the merge output,
   no row has an empty geometry, every group with source features has a
   row, and when no group has source features the merge returns the empty
   frame and warns; a frame without names gives the empty frame and an
   error message; the call returns in every case. *)
C19_GroupsWithoutGeometryOmitted ==
  pc = "done" =>
    IF gdf.has_name
    THEN /\ \A g \in Values(TRAFIKVERKET_REGIONS) :
              SourceFeatures(g) = {} <=> OutputRows(g) = {}
         /\ \A k \in 1..Len(trafikverket_gdf.rows) :
              trafikverket_gdf.rows[k].geometry # {}
         /\ (\A g \in Values(TRAFIKVERKET_REGIONS) : SourceFeatures(g) = {}) =>
              /\ trafikverket_gdf = EmptyGeoDataFrame
              /\ messages = {"warning: no regions created"}
         /\ (\E g \in Values(TRAFIKVERKET_REGIONS) : SourceFeatures(g) # {}) =>
              messages = {}
    ELSE /\ trafikverket_gdf = EmptyGeoDataFrame
         /\ messages = {"error: merge failed"}

(* features that belong to no group were merged: nothing came out, with a
   warning *)
C19_Witness ==
  /\ pc = "done"
  /\ gdf.has_name
  /\ Len(gdf.rows) >= 2
  /\ trafikverket_gdf = EmptyGeoDataFrame
  /\ "warning: no regions created" \in messages

(* ------------------------------- C20 ------------------------------------ *)

(* the rows of a frame as a set of (name, geometry) pairs *)
GroupAreas(frame) ==
  {<<frame.rows[k].name, frame.rows[k].geometry>> : k \in 1..Len(frame.rows)}

(* gdf with its rows in the order p *)
Permuted(p) ==
  [gdf EXCEPT !.rows = [i \in 1..Len(gdf.rows) |-> gdf.rows[p[i]]]]

(* C20: for every permutation of the rows of the input frame the merge
   gives the same groups, each with the same area. *)
C20_MergeOrderIndependent ==
  pc = "done" =>
    \A p \in Orders(1..Len(gdf.rows)) :
      GroupAreas(create_trafikverket_regions(
                   Permuted(p), SortKeys(Values(TRAFIKVERKET_REGIONS))).gdf)
        = GroupAreas(trafikverket_gdf)

(* a group was merged from features of different areas that can be
   swapped *)
C20_Witness ==
  /\ pc = "done"
  /\ \E k \in 1..Len(trafikverket_gdf.rows) :
       \E i, j \in SourceFeatures(trafikverket_gdf.rows[k].name) :
         /\ i # j
         /\ gdf.rows[i].geometry # gdf.rows[j].geometry
         /\ gdf.rows[i].name = gdf.rows[j].name

(* ------------------------------- C21 ------------------------------------ *)

(* C21: a second, independent computation of the merge from the same
   source frame, in whatever order that process iterates the set of region
   names, returns the frame the first one returned: the same rows, with the
   same labels, ids and geometries, in the same sequence. *)
C21_MergeRepeatable ==
  pc = "done" =>
    \A region_order \in IterationOrders(gdf) :
      create_trafikverket_regions(gdf, region_order).gdf = trafikverket_gdf

(* ------------------------------- C22 ------------------------------------ *)

(* the features of the boundary frame whose name, ' län' removed, is one of
   the regions *)
FeaturesOfRegions(regions) ==
  {k \in 1..Len(gdf.rows) :
     /\ gdf.rows[k].name # NaCell
     /\ \E i \in 1..Len(regions) : StripLanSuffix(gdf.rows[k].name.str) = regions[i]}

(* C22: the map of the custom groups fills, for every group with regions,
   the features whose name with ' län' removed is one of the group's
   regions: a feature named 'Skåne län' belongs to the group that lists
   'Skåne'. *)
C22_CustomMapNormalizesNames ==
  (pc = "mapped" /\ gdf.has_name) =>
    /\ Len(shown.fig) = 1
    /\ \A p \in 1..Len(shown.fig[1].patches) :
         LET patch == shown.fig[1].patches[p]
         IN  {gdf.rows[k] : k \in FeaturesOfRegions(ConfiguredRegions(patch.label))}
               = {patch.features[k] : k \in 1..Len(patch.features)}

(* ------------------------------- C29 ------------------------------------ *)

(* C29: display_custom_groups_analysis, called with a grouping that is not
   empty, a grouped table that is not empty and county boundaries, returns
   without raising, and the comparison table and the CSV download are
   among the elements it displayed. *)
C29_AnalysisCompletes ==
  (/\ pc \in {"analysed", "raised"}
   /\ Len(custom_groups) > 0
   /\ Len(create_custom_region_group(data, custom_groups)) > 0
   /\ gdf # NoFrame) =>
    /\ pc = "analysed"
    /\ \E k \in 1..Len(shown.elements) : shown.elements[k] = "comparison table"
    /\ \E k \in 1..Len(shown.elements) : shown.elements[k] = "csv download"

(* ------------------------------- C23 ------------------------------------ *)

(* the features of the source that are Swedish regions *)
SwedishFeatures ==
  SelectSeq(geojson, LAMBDA f : Len(f.NUTS_ID) = 1 /\ startswith(f.NUTS_ID[1], <<"S","E">>))

(* a feature carries one of the identifying properties *)
Identified(f) ==
  Len(f.NUTS_ID) = 1 \/ Len(f.NUTS_NAME) = 1 \/ Len(f.NAME) = 1

(* C23: a source whose features have NUTS_ID and neither NUTS_NAME nor NAME
   is loaded, with one row per Swedish feature named from NUTS_ID_TO_NAME;
   a loaded feature with NUTS_NAME is named by it, and one with NAME by
   that when no Swedish feature has NUTS_NAME; and loading returns no
   frame only for a source none of whose features has an identifying
   property. *)
C23_FallbackNamingAndFailure ==
  pc = "loaded" =>
    /\ (\A k \in 1..Len(geojson) :
          /\ Len(geojson[k].NUTS_ID) = 1
          /\ Len(geojson[k].NUTS_NAME) = 0
          /\ Len(geojson[k].NAME) = 0) =>
         /\ nuts2_gdf # NoFrame
         /\ Len(nuts2_gdf.rows) = Len(SwedishFeatures)
         /\ \A k \in 1..Len(nuts2_gdf.rows) :
              /\ nuts2_gdf.rows[k].geometry = SwedishFeatures[k].geometry
              /\ HasKey(NUTS_ID_TO_NAME, SwedishFeatures[k].NUTS_ID[1]) =>
                   nuts2_gdf.rows[k].name
                     = StrCell(Lookup(NUTS_ID_TO_NAME, SwedishFeatures[k].NUTS_ID[1]))
    /\ nuts2_gdf # NoFrame =>
         \A k \in 1..Len(nuts2_gdf.rows) :
           /\ Len(SwedishFeatures[k].NUTS_NAME) = 1 =>
                nuts2_gdf.rows[k].name = StrCell(SwedishFeatures[k].NUTS_NAME[1])
           /\ (/\ Len(SwedishFeatures[k].NAME) = 1
               /\ \A j \in 1..Len(SwedishFeatures) : Len(SwedishFeatures[j].NUTS_NAME) = 0) =>
                nuts2_gdf.rows[k].name = StrCell(SwedishFeatures[k].NAME[1])
    /\ nuts2_gdf = NoFrame =>
         \A k \in 1..Len(geojson) : ~Identified(geojson[k])

(* ------------------------------- C25 ------------------------------------ *)

(* C25: whatever was added, edited, deleted or drawn at random in the
   grouping UI since the empty grouping, no base region is in the lists of
   two groups. *)
C25_GroupsPairwiseDisjoint ==
  \A g \in 1..Len(custom_groups) : \A h \in 1..Len(custom_groups) :
    g # h => RegionsOfGroup(g) \cap RegionsOfGroup(h) = {}

(* a second group was added from the regions the first one left unused *)
C25_Witness ==
  /\ pc = "added"
  /\ Len(custom_groups) = 2
  /\ RegionsOfGroup(1) # {}
  /\ RegionsOfGroup(2) # {}

(* ------------------------------- C26 ------------------------------------ *)

(* row i has a numeric value and a group in the partition `label` *)
Contributes(i, label) ==
  /\ ~to_numeric(df[i].value).isna
  /\ label[i] # <<>>

(* C26: a row with a numeric value is among the rows of a NUTS-2 group if
   and only if it is among the rows of a transport region, and that is so
   exactly when its identifier matches a base region; a row that
   contributes to a table has its group in that table. *)
C26_SameResolvedRows ==
  pc = "done" =>
    \A i \in 1..Len(df) :
      /\ Contributes(i, Nuts2Label) <=> Contributes(i, TransportLabel)
      /\ Contributes(i, Nuts2Label) <=>
           (~to_numeric(df[i].value).isna /\ MatchesBaseRegion(Supplied(i)))
      /\ Contributes(i, Nuts2Label) => Nuts2Label[i][1] \in GroupsOf(nuts2_data)
      /\ Contributes(i, TransportLabel) => TransportLabel[i][1] \in GroupsOf(trafikverket_data)

(* ------------------------------- C27 ------------------------------------ *)

(* C27: after the map of any of the three levels was drawn, the three
   aggregate tables are the tables process_data produced, and the CSV
   offered for download is that of the produced table of the level. *)
C27_RenderingKeepsTables ==
  (pc = "displayed" /\ Len(shown.fig) > 0) =>
    LET produced == process_data(df)
    IN  /\ lan_data = produced.lan_data
        /\ nuts2_data = produced.nuts2_data
        /\ trafikverket_data = produced.trafikverket_data
        /\ shown.map_type = "Län" =>
             shown.csv = <<to_csv(produced.lan_data, "region_name")>>
        /\ shown.map_type = "NUTS-2 Regioner" =>
             shown.csv = <<to_csv(produced.nuts2_data, "nuts2_region")>>
        /\ shown.map_type = "Trafikverket Regioner" =>
             shown.csv = <<to_csv(produced.trafikverket_data, "trafikverket_region")>>

(* ------------------------------- C24 ------------------------------------ *)

(* the transport-authority aggregate is in the session and its map is shown *)
TransportDisplayed ==
  /\ pc = "panel shown"
  /\ "trafikverket_data" \in session.keys
  /\ shown.map_type = "Trafikverket Regioner"
  /\ Len(shown.fig) > 0

(* C24: from the initial session with a table that has rows of transport
   regions, some choice of the sidebar's settings and a press of
   "Generera visualisering" stores the transport-authority aggregate in
   the session, and the main panel then shows its map. *)
C24_TransportCanBeDisplayed ==
  (pc = "start" /\ Len(process_data(df).trafikverket_data) > 0) =>
    \E settings \in SidebarSettings :
      LET generated == render_visualization_options(df, session, settings, TRUE)
          panel     == show_visualization(generated.session, gdf, nuts2_gdf, trafikverket_gdf)
      IN  /\ generated.returned = "True"
          /\ "trafikverket_data" \in generated.session.keys
          /\ ~panel.raised
          /\ panel.shown.map_type = "Trafikverket Regioner"
          /\ Len(panel.shown.fig) > 0

(* ------------------------------- C28 ------------------------------------ *)

(* C28: when "Generera visualisering" was pressed on a table with a valid
   row, the sidebar returned True, and the session holds the aggregates
   process_data returned, the settings chosen and visualization_ready. *)
C28_GenerateStoresResults ==
  (/\ pc \in {"sidebar raised", "sidebar returned True", "sidebar returned False"}
   /\ shown.pressed
   /\ Len(process_data(df).lan_data) > 0) =>
    /\ pc = "sidebar returned True"
    /\ is_ready(session)
    /\ session.lan_data = process_data(df).lan_data
    /\ session.nuts2_data = process_data(df).nuts2_data
    /\ session.map_type = shown.settings.map_type
    /\ session.value_column = shown.settings.value_column
    /\ session.color_scheme = shown.settings.color_scheme
    /\ session.width = shown.settings.size[1]
    /\ session.height = shown.settings.size[2]

(* ------------------------------- C30 ------------------------------------ *)

(* the tables and settings a Generate stores *)
StoredResults(state) ==
  <<state.lan_data, state.nuts2_data, state.map_type, state.value_column,
    state.color_scheme, state.width, state.height>>

(* C30: in every run of the script, the session changes only when a
   Generate stored its results; visualization_ready becomes true only in a
   run whose Generate processed the table into a county or NUTS-2
   aggregate with rows, and once true it stays true; a Generate whose
   processing yields only empty tables leaves the stored tables and
   settings as they were, and the visualization shown before is shown
   again. *)
C30_ResultsChangeOnlyOnSuccess ==
  [][/\ session' # session => pc' = "generated"
     /\ (~is_ready(session) /\ is_ready(session')) =>
          /\ pc' = "generated"
          /\ \/ Len(app_process_data(df').lan_data) > 0
             \/ Len(app_process_data(df').nuts2_data) > 0
     /\ is_ready(session) => is_ready(session')
     /\ (/\ pc' \in {"generated", "generate failed"}
         /\ Len(app_process_data(df').lan_data) = 0
         /\ Len(app_process_data(df').nuts2_data) = 0) =>
          /\ pc' = "generate failed"
          /\ StoredResults(session') = StoredResults(session)
          /\ is_ready(session') = is_ready(session)
          /\ shown.kind = "visualization" => shown' = shown]_vars

(* a Generate on a table without a valid row ran after a map was shown *)
C30_Witness ==
  /\ pc = "generate failed"
  /\ is_ready(session)
  /\ Len(session.lan_data) > 0
  /\ shown.kind = "visualization"
  /\ Len(shown.fig) > 0

====
